---- MODULE Spec2Model ----
(***************************************************************************)
(* A model of the QML analyzer of qt-plus: the macro expander and the      *)
(* grammar-driven rule engine of QMLAnalyzer.cpp, over the entity tree     *)
(* (QMLBinaryOperation.cpp and the documented members of the other         *)
(* entity classes).                                                        *)
(*                                                                         *)
(* A QString is a sequence of one-character strings, so that toLower,      *)
(* contains, replace and the ordering of QMap keys are computed and not    *)
(* assumed.                                                                *)
(***************************************************************************)
EXTENDS Integers, Sequences, FiniteSets, TLC

VARIABLES
    pc,          \* position of the analyzer: which call is to run next
    m_xGrammar,  \* QMLAnalyzer::m_xGrammar, the rule document (a CXMLNode)
    m_mMacros,   \* QMLAnalyzer::m_mMacros, macro name -> value
    m_vErrors,   \* QMLAnalyzer::m_vErrors, the error list
    emitted,     \* the analyzeError notifications, in order of emission
    tree,        \* the entity tree of the parsed file (an arena of entities)
    fileContents,\* QMLFile::contents() of the parsed file
    sFileName,   \* the full name of the file being analyzed
    existing,    \* the relative paths that exist beside the file
    stack,       \* pending runGrammar_Recurse calls, next call first
    visited,     \* entities runGrammar_Recurse has been run on, in order
    evals,       \* every runGrammar_Reject call made, in order, with its outcome
    diags,       \* for each entry of m_vErrors, what produced it
    macroText,   \* the argument of a stand-alone processMacros call
    macroResult, \* the value that call returned
    m_pContext,  \* QMLAnalyzer::m_pContext, the parsing context ("nullptr" if none)
    settings,    \* m_sFolder, m_sFile and the four flags the setters set
    m_bStopAnalyzeRequested,  \* QMLAnalyzer::m_bStopAnalyzeRequested
    disk,        \* the directories and source files the run reads
    frames,      \* the analyze_Recurse calls in progress, innermost first
    events,      \* what the run did, in order: calls, notifications, passes
    m_mContextMutex,  \* QMLAnalyzer::m_mContextMutex: the thread that holds it
    contexts,    \* the QMLTreeContext objects allocated, and the one m_pContext points to
    caller,      \* the thread that calls the analyzer: its position, the pointer it got
    scope,       \* the scope the lexer reads: its stream, its token value, its flags
    listView     \* a CWebListView: its page, its items per page, what it shows

\* The variables of the two threads, of the lexer and of the list view.
lockVars == <<m_mContextMutex, contexts, caller, scope, listView>>

\* The variables of a run over files and folders.

runVars == <<m_pContext, settings, m_bStopAnalyzeRequested, disk, frames, events,
             m_mContextMutex, contexts, caller, scope, listView>>

vars == <<pc, m_xGrammar, m_mMacros, m_vErrors, emitted, tree, fileContents,
          sFileName, existing, stack, visited, evals, diags, macroText, macroResult,
          m_pContext, settings, m_bStopAnalyzeRequested, disk, frames, events,
          m_mContextMutex, contexts, caller, scope, listView>>

-----------------------------------------------------------------------------
(* QString *)

\* A string literal as a QString.
Str(s) == [i \in 1..Len(s) |-> SubSeq(s, i, i)]

\* The characters used, in ascending code-point order (QString compares by
\* code unit, QMap<QString, ...> iterates its keys in that order).
AsciiOrder ==
    << "\"", "#", "$", ",", ".", "0", "1", "2", "3",
       "A", "B", "C", "E", "F", "L", "N", "O", "R", "T", "U", "X",
       "a", "b", "c", "e", "f", "g", "h", "i", "l", "m", "n", "o", "p",
       "r", "s", "t", "u", "v", "x", "y" >>

Upper == << "A", "B", "C", "D", "E", "F", "G", "H", "I", "J", "K", "L", "M",
           "N", "O", "P", "Q", "R", "S", "T", "U", "V", "W", "X", "Y", "Z" >>
Lower == << "a", "b", "c", "d", "e", "f", "g", "h", "i", "j", "k", "l", "m",
           "n", "o", "p", "q", "r", "s", "t", "u", "v", "w", "x", "y", "z" >>

CharCode(c) == CHOOSE i \in 1..Len(AsciiOrder) : AsciiOrder[i] = c

\* QString::operator< : lexicographic on code units.
RECURSIVE StrLess(_, _)
StrLess(a, b) ==
    IF b = <<>> THEN FALSE
    ELSE IF a = <<>> THEN TRUE
    ELSE IF a[1] = b[1] THEN StrLess(Tail(a), Tail(b))
    ELSE CharCode(a[1]) < CharCode(b[1])

\* QMap::keys(): the keys in ascending order.
RECURSIVE SortedKeys(_)
SortedKeys(S) ==
    IF S = {} THEN <<>>
    ELSE LET m == CHOOSE k \in S : \A o \in S \ {k} : StrLess(k, o)
         IN  <<m>> \o SortedKeys(S \ {m})

LowerChar(c) ==
    IF \E i \in 1..Len(Upper) : Upper[i] = c
    THEN Lower[CHOOSE i \in 1..Len(Upper) : Upper[i] = c]
    ELSE c

\* QString::toLower
toLower(s) == [i \in 1..Len(s) |-> LowerChar(s[i])]

\* QString::contains(sub)
contains(s, sub) ==
    \E i \in 0..(Len(s) - Len(sub)) : SubSeq(s, i + 1, i + Len(sub)) = sub

\* QString::replace(before, after): every occurrence, left to right, without
\* overlap and without rescanning the inserted text. before is not empty.
RECURSIVE replace(_, _, _)
replace(s, before, after) ==
    IF Len(s) < Len(before) THEN s
    ELSE IF SubSeq(s, 1, Len(before)) = before
         THEN after \o replace(SubSeq(s, Len(before) + 1, Len(s)), before, after)
         ELSE <<s[1]>> \o replace(Tail(s), before, after)

\* QString::remove of one character, written replace("\"", "") in the source.
RemoveChar(s, c) == SelectSeq(s, LAMBDA x : x # c)

\* QString::split(","): the fields between the separators, empty ones kept.
RECURSIVE split(_, _)
split(s, sep) ==
    IF \E i \in 1..Len(s) : s[i] = sep
    THEN LET i == CHOOSE j \in 1..Len(s) : s[j] = sep /\ \A k \in 1..(j - 1) : s[k] # sep
         IN  <<SubSeq(s, 1, i - 1)>> \o split(SubSeq(s, i + 1, Len(s)), sep)
    ELSE <<s>>

-----------------------------------------------------------------------------
(* CXMLNode: [tag, attributes, nodes] *)

XMLNode(tag, attributes, nodes) ==
    [tag |-> tag, attributes |-> attributes, nodes |-> nodes]

\* CXMLNode::attributes()[name]: the value, or an empty string when absent.
Attr(x, name) ==
    IF name \in DOMAIN x.attributes THEN x.attributes[name] ELSE <<>>

\* CXMLNode::getNodesByTagName: the child elements with that tag, in
\* document order.
getNodesByTagName(x, tag) == SelectSeq(x.nodes, LAMBDA n : n.tag = tag)

-----------------------------------------------------------------------------
(* Macros *)

\* parseMacros: m_mMacros[sName] = sValue for every <Macro>, in document
\* order, a later definition of a name replacing an earlier one.
RECURSIVE parseMacros_Loop(_, _)
parseMacros_Loop(vMacros, m) ==
    IF vMacros = <<>> THEN m
    ELSE LET sName  == Attr(Head(vMacros), "Name")
             sValue == Attr(Head(vMacros), "Value")
         IN  parseMacros_Loop(Tail(vMacros),
                 [k \in (DOMAIN m) \cup {sName} |-> IF k = sName THEN sValue ELSE m[k]])

parseMacros(xGrammar) ==
    parseMacros_Loop(getNodesByTagName(xGrammar, "Macro"), <<>>)

\* QString("$%1$").arg(sMacro)
FullMacroName(sMacro) == <<"$">> \o sMacro \o <<"$">>

\* The body of the foreach of processMacros for one macro name.
processMacros_Step(mMacros, sMacro, sResult) ==
    IF contains(sResult, FullMacroName(sMacro))
    THEN IF Len(mMacros[sMacro]) > 0
         THEN replace(sResult, FullMacroName(sMacro), mMacros[sMacro])
         ELSE sResult
    ELSE sResult

\* A changed foreach: it returns after the first macro name.
processMacros_Loop_FirstOnly(mMacros, keys, sResult) ==
    IF keys = <<>> THEN sResult
    ELSE processMacros_Step(mMacros, Head(keys), sResult)

\* A changed foreach: a second pass expands what the first pass introduced.
RECURSIVE processMacros_Pass(_, _, _)
processMacros_Pass(mMacros, keys, sResult) ==
    IF keys = <<>> THEN sResult
    ELSE processMacros_Pass(mMacros, Tail(keys),
                            processMacros_Step(mMacros, Head(keys), sResult))
processMacros_Loop_Twice(mMacros, keys, sResult) ==
    processMacros_Pass(mMacros, keys, processMacros_Pass(mMacros, keys, sResult))

RECURSIVE processMacros_Loop(_, _, _)
processMacros_Loop(mMacros, keys, sResult) ==
    IF keys = <<>> THEN sResult
    ELSE processMacros_Loop(mMacros, Tail(keys),
                            processMacros_Step(mMacros, Head(keys), sResult))

\* QMLAnalyzer::processMacros with the macro table given.
processMacrosWith(mMacros, text) ==
    processMacros_Loop(mMacros, SortedKeys(DOMAIN mMacros), text)

\* QMLAnalyzer::processMacros
processMacros(text) == processMacrosWith(m_mMacros, text)

-----------------------------------------------------------------------------
(* The entity tree.  tree[n] is the entity n; 0 is nullptr. *)

Entity(className, str, vtype, position, left, right, fields, contents, complex, unused) ==
    [ className |-> Str(className), \* metaObject()->className()
      str       |-> str,            \* toString()
      vtype     |-> vtype,          \* value().type()
      position  |-> position,       \* position()
      left      |-> left,           \* QMLBinaryOperation::m_pLeft
      right     |-> right,          \* QMLBinaryOperation::m_pRight
      fields    |-> fields,         \* the named children of the other classes
      contents  |-> contents,       \* QMLComplexEntity::contents()
      complex   |-> complex,        \* is a QMLComplexEntity
      unused    |-> unused ]        \* unusedProperties / -Variables / -Parameters

NoFields == <<>>
NoUnused == [property |-> <<>>, variable |-> <<>>, parameter |-> <<>>]

\* QMLBinaryOperation::members
BinaryOperation_members(e) ==
    (Str("Left") :> e.left) @@ (Str("Right") :> e.right)

\* members() of the classes other than QMLBinaryOperation, as the class
\* documentation lists them: lowercase member names.
Documented_members(e) == e.fields

\* QMLEntity::members (virtual)
members(n) ==
    IF tree[n].className = Str("QMLBinaryOperation")
    THEN BinaryOperation_members(tree[n])
    ELSE Documented_members(tree[n])

\* dynamic_cast<QMLComplexEntity*>(p)->contents(), empty when the cast fails
contentsOf(n) == IF tree[n].complex THEN tree[n].contents ELSE <<>>

\* QMLType::typeToString of a QVariant type
typeToString(vtype) ==
    CASE vtype = "Bool"   -> Str("bool")
      [] vtype = "Int"    -> Str("int")
      [] vtype = "Double" -> Str("real")
      [] vtype = "String" -> Str("string")
      [] OTHER            -> Str("var")

\* QString::toInt: the decimal value, 0 when the text is not a number.
Digits == << "0", "1", "2", "3" >>
IsDigit(c) == \E i \in 1..Len(Digits) : Digits[i] = c
DigitValue(c) == (CHOOSE i \in 1..Len(Digits) : Digits[i] = c) - 1
RECURSIVE toInt_Loop(_, _)
toInt_Loop(s, acc) ==
    IF s = <<>> THEN acc ELSE toInt_Loop(Tail(s), 10 * acc + DigitValue(s[1]))
toInt(s) ==
    IF s # <<>> /\ \A i \in 1..Len(s) : IsDigit(s[i]) THEN toInt_Loop(s, 0) ELSE 0

\* QRegExp(pattern).exactMatch(s), for patterns made of literal characters
\* and the wildcard '.'.
exactMatch(pattern, s) ==
    /\ Len(pattern) = Len(s)
    /\ \A i \in 1..Len(s) : pattern[i] = "." \/ pattern[i] = s[i]

\* QFileInfo(path).exists() || QDir(path).exists(), the path taken relative
\* to the directory of the analyzed file.
PathExists(sMemberToString) == sMemberToString \in existing

XOR(a, b) == a # b

-----------------------------------------------------------------------------
(* The rule engine *)

\* A changed condition: the file name is always compared for equality,
\* whatever the Operation.
SatisfiesCondition_EqualityOnly(n, xCondition) ==
    LET sValue  == Attr(xCondition, "Value")
        sMember == toLower(Attr(xCondition, "Member"))
        sNegate == toLower(Attr(xCondition, "Negate"))
    IN  IF sMember = Str("filename")
        THEN XOR(sFileName = sValue, sNegate = Str("true"))
        ELSE TRUE

\* A changed condition: Negate is not read.
SatisfiesCondition_NegateIgnored(n, xCondition) ==
    LET sValue   == Attr(xCondition, "Value")
        sMember  == toLower(Attr(xCondition, "Member"))
        mMembers == members(n)
    IN  IF sMember \in DOMAIN mMembers /\ mMembers[sMember] # 0
        THEN sValue # <<>> => RemoveChar(tree[mMembers[sMember]].str, "\"") = sValue
        ELSE TRUE

\* A changed condition: a member that is null or not there is compared as
\* an empty string.
SatisfiesCondition_AbsentIsEmpty(n, xCondition) ==
    LET sValue   == Attr(xCondition, "Value")
        sMember  == toLower(Attr(xCondition, "Member"))
        sNegate  == toLower(Attr(xCondition, "Negate"))
        mMembers == members(n)
        sMemberToString ==
            IF sMember \in DOMAIN mMembers /\ mMembers[sMember] # 0
            THEN RemoveChar(tree[mMembers[sMember]].str, "\"")
            ELSE <<>>
    IN  sValue # <<>> => XOR(sMemberToString = sValue, sNegate = Str("true"))

\* One <Condition> of runGrammar_SatisfiesConditions: FALSE where the source
\* returns false, TRUE where it goes on to the next condition.
SatisfiesCondition(n, xCondition) ==
    LET sOperation == Attr(xCondition, "Operation")
        sValue     == Attr(xCondition, "Value")
        sMember    == toLower(Attr(xCondition, "Member"))
        sEmpty     == toLower(Attr(xCondition, "Empty"))
        sNegate    == toLower(Attr(xCondition, "Negate"))
        mMembers   == members(n)
    IN
    IF sMember \in DOMAIN mMembers /\ mMembers[sMember] # 0
    THEN LET sMemberToString == RemoveChar(tree[mMembers[sMember]].str, "\"")
         IN  IF sValue # <<>>
             THEN IF sMemberToString = sValue
                  THEN IF sNegate = Str("true") THEN FALSE ELSE TRUE
                  ELSE IF sNegate # Str("true") THEN FALSE ELSE TRUE
             ELSE IF sEmpty # <<>>
                  THEN IF (sMemberToString = <<>> /\ sEmpty = Str("true")) = FALSE
                       THEN FALSE ELSE TRUE
                  ELSE TRUE
    ELSE IF sMember = Str("filename")
         THEN IF sOperation = Str("Contains")
              THEN IF contains(sFileName, sValue)
                   THEN IF sNegate = Str("true") THEN FALSE ELSE TRUE
                   ELSE IF sNegate # Str("true") THEN FALSE ELSE TRUE
              ELSE IF sFileName = sValue
                   THEN IF sNegate = Str("true") THEN FALSE ELSE TRUE
                   ELSE IF sNegate # Str("true") THEN FALSE ELSE TRUE
         ELSE IF sEmpty # <<>>
              THEN IF sEmpty # Str("true") THEN FALSE ELSE TRUE
              ELSE TRUE

\* A changed loop: it returns true after the first condition that passes.
runGrammar_SatisfiesConditions_FirstOnly(n, xRule) ==
    LET vConditions == getNodesByTagName(xRule, "Condition")
    IN  vConditions = <<>> \/ SatisfiesCondition(n, vConditions[1])

\* QMLAnalyzer::runGrammar_SatisfiesConditions
runGrammar_SatisfiesConditions(n, xRule) ==
    LET vConditions == getNodesByTagName(xRule, "Condition")
    IN  \A i \in 1..Len(vConditions) : SatisfiesCondition(n, vConditions[i])

MaxOf(S) == IF S = {} THEN 0 ELSE CHOOSE m \in S : \A o \in S : o <= m

\* A changed count: only the contents are followed, not the members.
RECURSIVE runGrammar_CountNested_ContentsOnly(_, _)
runGrammar_CountNested_ContentsOnly(sClassName, n) ==
    IF n = 0 THEN 0
    ELSE LET c == contentsOf(n)
             iCount == MaxOf({runGrammar_CountNested_ContentsOnly(sClassName, c[i]) :
                                 i \in 1..Len(c)})
         IN  IF tree[n].className = sClassName THEN iCount + 1 ELSE iCount

\* QMLAnalyzer::runGrammar_CountNested
RECURSIVE runGrammar_CountNested(_, _)
runGrammar_CountNested(sClassName, n) ==
    IF n = 0 THEN 0
    ELSE LET mMembers == members(n)
             inMembers == MaxOf({runGrammar_CountNested(sClassName, mMembers[k]) :
                                    k \in DOMAIN mMembers})
             c == contentsOf(n)
             inContents == MaxOf({runGrammar_CountNested(sClassName, c[i]) :
                                    i \in 1..Len(c)})
             iCount == IF inContents > inMembers THEN inContents ELSE inMembers
         IN  IF tree[n].className = sClassName THEN iCount + 1 ELSE iCount

\* The else-if chain of runGrammar_Reject on a non-null member pMember of the
\* entity: TRUE iff outputError is called.
MemberTest(pMember, xRule, bInverseLogic) ==
    LET sValue  == processMacros(Attr(xRule, "Value"))
        sType   == processMacros(Attr(xRule, "Type"))
        sCount  == processMacros(Attr(xRule, "Count"))
        sRegExp == processMacros(Attr(xRule, "RegExp"))
        sPath   == processMacros(Attr(xRule, "Path"))
        sList   == processMacros(Attr(xRule, "List"))
        sClass  == processMacros(Attr(xRule, "Class"))
        sMemberToString == RemoveChar(tree[pMember].str, "\"")
        sMemberClass    == tree[pMember].className
    IN
    IF sList # <<>>
    THEN LET lNames == split(sList, ",")
         IN  XOR(\E i \in 1..Len(lNames) : lNames[i] = sMemberToString, bInverseLogic)
    ELSE IF sClass # <<>>
    THEN XOR(sMemberClass = sClass, bInverseLogic)
    ELSE IF sPath # <<>>
    THEN IF sPath = Str("Exists")
         THEN XOR(PathExists(sMemberToString), bInverseLogic)
         ELSE FALSE
    ELSE IF sRegExp # <<>> /\ sMemberToString # <<>>
    THEN XOR(exactMatch(sRegExp, sMemberToString), bInverseLogic)
    ELSE IF sCount # <<>>
    THEN IF tree[pMember].complex
         THEN XOR(Len(tree[pMember].contents) > toInt(sCount), bInverseLogic)
         ELSE FALSE
    ELSE IF sType # <<>>
    THEN XOR(typeToString(tree[pMember].vtype) = sType, bInverseLogic)
    ELSE XOR(sMemberToString = sValue, bInverseLogic)

\* The entity a rule's Member attribute designates on entity n, 0 when the
\* member map has no such key or holds nullptr for it.
RuleMember(n, xRule) ==
    LET sMember  == processMacros(toLower(Attr(xRule, "Member")))
        mMembers == members(n)
    IN  IF sMember \in DOMAIN mMembers THEN mMembers[sMember] ELSE 0

\* A changed chain: the Value test comes first, as in the table of rule
\* attributes, when the rule has a Value.
runGrammar_Reject_ValueFirst(sClassName, n, xRule, bInverseLogic) ==
    LET sNestedCount == processMacros(Attr(xRule, "NestedCount"))
        sValue       == processMacros(Attr(xRule, "Value"))
    IN
    IF runGrammar_SatisfiesConditions(n, xRule)
    THEN IF sNestedCount # <<>>
         THEN LET iNestedCountAllowed == toInt(sNestedCount)
              IN  IF XOR(iNestedCountAllowed > 0, bInverseLogic)
                  THEN runGrammar_CountNested(sClassName, n) > iNestedCountAllowed
                  ELSE FALSE
         ELSE IF RuleMember(n, xRule) # 0
              THEN IF sValue # <<>>
                   THEN XOR(RemoveChar(tree[RuleMember(n, xRule)].str, "\"") = sValue,
                            bInverseLogic)
                   ELSE MemberTest(RuleMember(n, xRule), xRule, bInverseLogic)
              ELSE FALSE
    ELSE FALSE

\* QMLAnalyzer::runGrammar_Reject: TRUE iff it calls outputError (with the
\* position of n and the rule's Text) and returns true.
runGrammar_Reject(sClassName, n, xRule, bInverseLogic) ==
    LET sNestedCount == processMacros(Attr(xRule, "NestedCount"))
    IN
    IF runGrammar_SatisfiesConditions(n, xRule)
    THEN IF sNestedCount # <<>>
         THEN LET iNestedCountAllowed == toInt(sNestedCount)
              IN  IF XOR(iNestedCountAllowed > 0, bInverseLogic)
                  THEN runGrammar_CountNested(sClassName, n) > iNestedCountAllowed
                  ELSE FALSE
         ELSE IF RuleMember(n, xRule) # 0
              THEN MemberTest(RuleMember(n, xRule), xRule, bInverseLogic)
              ELSE FALSE
    ELSE FALSE

\* The record kept of one runGrammar_Reject call.
EvalRecord(n, iCheck, sClassName, xRule, bInverseLogic) ==
    [ node    |-> n,
      check   |-> iCheck,
      rule    |-> xRule,
      inverse |-> bInverseLogic,
      member  |-> RuleMember(n, xRule),
      fired   |-> runGrammar_Reject(sClassName, n, xRule, bInverseLogic) ]

\* A changed foreach: it stops at the first rule that fires.
RunRules_StopAtFirst(n, iCheck, sClassName, vRules, bInverseLogic) ==
    LET all == [i \in 1..Len(vRules) |->
                    EvalRecord(n, iCheck, sClassName, vRules[i], bInverseLogic)]
        upTo == IF \E i \in 1..Len(all) : all[i].fired
                THEN CHOOSE i \in 1..Len(all) :
                        all[i].fired /\ \A j \in 1..(i - 1) : ~ all[j].fired
                ELSE Len(all)
    IN  SubSeq(all, 1, upTo)

\* foreach (CXMLNode xRule, vRules) runGrammar_Reject(...): every rule is run.
RunRules(n, iCheck, sClassName, vRules, bInverseLogic) ==
    [i \in 1..Len(vRules) |-> EvalRecord(n, iCheck, sClassName, vRules[i], bInverseLogic)]

\* A changed body: the Accepts are run before the Rejects.
RunCheck_AcceptsFirst(n, iCheck, xCheck) ==
    LET sClassName == Attr(xCheck, "Class")
    IN  IF tree[n].className = sClassName
        THEN RunRules(n, iCheck, sClassName, getNodesByTagName(xCheck, "Accept"), TRUE)
             \o RunRules(n, iCheck, sClassName, getNodesByTagName(xCheck, "Reject"), FALSE)
        ELSE <<>>

\* The body of foreach (CXMLNode xCheck, vChecks): the Rejects, then the Accepts.
RunCheck(n, iCheck, xCheck) ==
    LET sClassName == Attr(xCheck, "Class")
    IN  IF tree[n].className = sClassName
        THEN RunRules(n, iCheck, sClassName, getNodesByTagName(xCheck, "Reject"), FALSE)
             \o RunRules(n, iCheck, sClassName, getNodesByTagName(xCheck, "Accept"), TRUE)
        ELSE <<>>

RECURSIVE RunChecks(_, _, _)
RunChecks(n, vChecks, iCheck) ==
    IF iCheck > Len(vChecks) THEN <<>>
    ELSE RunCheck(n, iCheck, vChecks[iCheck]) \o RunChecks(n, vChecks, iCheck + 1)

\* The symbol-usage part of runGrammar_Recurse: the unused properties of an
\* item, the unused variables then the unused parameters of a function, each
\* map in key order. An entry is the declaration entity.
UnreferencedOf(n) ==
    LET u == tree[n].unused
        List(kind, text) ==
            LET keys == SortedKeys(DOMAIN u[kind])
            IN  [i \in 1..Len(keys) |->
                    [kind |-> kind, entity |-> u[kind][keys[i]], text |-> Str(text)]]
    IN  (IF tree[n].className = Str("QMLItem")
         THEN List("property", "Unreferenced property") ELSE <<>>)
        \o
        (IF tree[n].className = Str("QMLFunction")
         THEN List("variable", "Unreferenced variable")
              \o List("parameter", "Unreferenced parameter")
         ELSE <<>>)

\* A changed recursion: the children are visited whether or not a rule fired.
ChildCalls_Always(n, bHasRejects) ==
    LET mMembers == members(n)
        keys     == SortedKeys(DOMAIN mMembers)
    IN  [i \in 1..Len(keys) |-> mMembers[keys[i]]] \o contentsOf(n)

\* The recursive calls at the end of runGrammar_Recurse: none when a rule
\* fired, else the members in key order, then the contents.
ChildCalls(n, bHasRejects) ==
    IF bHasRejects THEN <<>>
    ELSE LET mMembers == members(n)
             keys     == SortedKeys(DOMAIN mMembers)
         IN  [i \in 1..Len(keys) |-> mMembers[keys[i]]] \o contentsOf(n)

\* QMLAnalyzerError(sFileName, pPosition, sText)
AnalyzerError(file, position, text) ==
    [file |-> file, position |-> position, text |-> text]

-----------------------------------------------------------------------------
(* Inputs: the files analyzed *)

Leaf(className, str, vtype, position) ==
    Entity(className, str, vtype, position, 0, 0, NoFields, <<>>, FALSE, NoUnused)

Named(className, position, fields) ==
    Entity(className, <<>>, "Invalid", position, 0, 0, fields, <<>>, FALSE, NoUnused)

\* The shapes the content of a property assignment takes (entities 3, 4, 5).
ContentShapes ==
    { \* color: "red"
      <<Leaf("QMLEntity", Str("\"red\""), "String", <<7, 0>>)>>,
      \* color: transparent
      <<Leaf("QMLIdentifier", Str("transparent"), "String", <<7, 0>>)>>,
      \* an entity whose string is empty
      <<Leaf("QMLEntity", <<>>, "Invalid", <<7, 0>>)>>,
      \* color: 3
      <<Leaf("QMLEntity", Str("3"), "Int", <<7, 0>>)>>,
      \* color: [ a, 1 ]
      <<Entity("QMLComplexEntity", <<>>, "Invalid", <<7, 0>>, 0, 0, NoFields,
               <<4, 5>>, TRUE, NoUnused),
        Leaf("QMLIdentifier", Str("a"), "String", <<9, 0>>),
        Leaf("QMLEntity", Str("1"), "Int", <<12, 0>>)>>,
      \* color: red + 1
      <<Entity("QMLBinaryOperation", <<>>, "Invalid", <<7, 0>>, 4, 5, NoFields,
               <<>>, FALSE, NoUnused),
        Leaf("QMLIdentifier", Str("red"), "String", <<7, 0>>),
        Leaf("QMLEntity", Str("1"), "Int", <<13, 0>>)>>,
      \* a binary operation whose right operand is missing
      <<Entity("QMLBinaryOperation", <<>>, "Invalid", <<7, 0>>, 4, 0, NoFields,
               <<>>, FALSE, NoUnused),
        Leaf("QMLIdentifier", Str("red"), "String", <<7, 0>>)>> }

\* color: "red" and color: transparent
PlainShapes ==
    { shape \in ContentShapes :
        Len(shape) = 1 /\ shape[1].str \in { Str("\"red\""), Str("transparent") } }

\* A file holding one property assignment  <name>: <content>.
AssignmentFile(name, shape) ==
    [ tree |-> << Named("QMLPropertyAssignment", <<0, 0>>,
                        (Str("content") :> 3) @@ (Str("name") :> 2) @@ (Str("type") :> 0)),
                  Leaf("QMLIdentifier", name, "String", <<0, 0>>) >> \o shape,
      contents |-> <<1>>,
      fileName |-> Str("a.x"),
      existing |-> { Str("red") } ]

\* Rectangle { property int p; Item { function f(a, b) { var v; a } } }
\* where p, b and v are not referenced.
ItemFile ==
    [ tree |-> <<
        Entity("QMLItem", <<>>, "Invalid", <<0, 0>>, 0, 0, Str("name") :> 2,
               <<3, 6>>, TRUE,
               [property |-> Str("p") :> 3, variable |-> <<>>, parameter |-> <<>>]),
        Leaf("QMLIdentifier", Str("Rectangle"), "String", <<0, 0>>),
        Named("QMLPropertyDeclaration", <<2, 1>>,
              (Str("content") :> 0) @@ (Str("name") :> 4) @@ (Str("type") :> 5)),
        Leaf("QMLIdentifier", Str("p"), "String", <<15, 1>>),
        Leaf("QMLType", Str("int"), "Invalid", <<11, 1>>),
        Entity("QMLItem", <<>>, "Invalid", <<2, 2>>, 0, 0, Str("name") :> 7,
               <<8>>, TRUE, NoUnused),
        Leaf("QMLIdentifier", Str("Item"), "String", <<2, 2>>),
        Entity("QMLFunction", <<>>, "Invalid", <<4, 3>>, 0, 0,
               (Str("content") :> 13) @@ (Str("name") :> 9) @@ (Str("parameters") :> 10),
               <<>>, FALSE,
               [property |-> <<>>, variable |-> Str("v") :> 14,
                parameter |-> Str("b") :> 12]),
        Leaf("QMLIdentifier", Str("f"), "String", <<13, 3>>),
        Entity("QMLComplexEntity", <<>>, "Invalid", <<14, 3>>, 0, 0, NoFields,
               <<11, 12>>, TRUE, NoUnused),
        Leaf("QMLIdentifier", Str("a"), "String", <<15, 3>>),
        Leaf("QMLIdentifier", Str("b"), "String", <<18, 3>>),
        Entity("QMLComplexEntity", <<>>, "Invalid", <<21, 3>>, 0, 0, NoFields,
               <<14, 15>>, TRUE, NoUnused),
        Leaf("QMLIdentifier", Str("v"), "String", <<27, 3>>),
        Leaf("QMLIdentifier", Str("a"), "String", <<30, 3>>) >>,
      contents |-> <<1>>,
      fileName |-> Str("a.x"),
      existing |-> {} ]

Files ==
    { AssignmentFile(Str("color"), shape) : shape \in ContentShapes }
    \cup { AssignmentFile(Str("x"), shape) : shape \in PlainShapes }
    \cup { ItemFile }

-----------------------------------------------------------------------------
(* Inputs: the rule documents *)

MaxAttrs  == 2   \* predicate attributes a generated rule sets at once
MaxConds  == 2   \* <Condition> elements of a generated rule
MaxRules  == 2   \* rules of a generated <Check>
MaxChecks == 2   \* <Check> elements of a generated document

SeqsUpTo(S, n) == UNION { [1..k -> S] : k \in 0..n }

\* The sequences of at most n different elements of S.
DistinctSeqsUpTo(S, n) ==
    { q \in SeqsUpTo(S, n) : \A i, j \in 1..Len(q) : i # j => q[i] # q[j] }

Macro(name, value) ==
    XMLNode("Macro", ("Name" :> Str(name)) @@ ("Value" :> Str(value)), <<>>)

\* The macros of the generated rule documents.
StandardMacros == << Macro("FOO", "color"), Macro("RED", "red") >>

Condition(attributes) == XMLNode("Condition", attributes, <<>>)

CondNameIsColor ==
    Condition(("Member" :> Str("name")) @@ ("Value" :> Str("color")))
CondContentNotTransparent ==
    Condition(("Member" :> Str("content")) @@ ("Value" :> Str("transparent"))
              @@ ("Negate" :> Str("true")))
CondNameIsMacro ==
    Condition(("Member" :> Str("Name")) @@ ("Value" :> Str("$FOO$")))
CondNameNotColor ==
    Condition(("Member" :> Str("name")) @@ ("Value" :> Str("color"))
              @@ ("Negate" :> Str("True")))
CondContentIsRed ==
    Condition(("Member" :> Str("content")) @@ ("Value" :> Str("red"))
              @@ ("Negate" :> Str("false")))

ConditionPool ==
    { CondNameIsColor, CondContentNotTransparent, CondNameIsMacro,
      CondNameNotColor, CondContentIsRed }

\* The predicate attributes of a rule and the value a generated rule gives each.
PredicateAttrs ==
    { "Value", "RegExp", "Class", "List", "Count", "Type", "Path", "NestedCount" }

PredicateValue(a) ==
    CASE a = "Value"       -> Str("$RED$")
      [] a = "RegExp"      -> Str("tr.nsp.r.nt")
      [] a = "Class"       -> Str("QMLEntity")
      [] a = "List"        -> Str("red,3")
      [] a = "Count"       -> Str("1")
      [] a = "Type"        -> Str("string")
      [] a = "Path"        -> Str("Exists")
      [] a = "NestedCount" -> Str("1")

Rule(tag, member, A, text, vConditions) ==
    XMLNode(tag,
            [a \in A \cup {"Member", "Text"} |->
                IF a = "Member" THEN Str(member)
                ELSE IF a = "Text" THEN Str(text)
                ELSE PredicateValue(a)],
            vConditions)

Check(class, vRules) == XMLNode("Check", "Class" :> Str(class), vRules)

Grammar(vMacros, vChecks) == XMLNode("Root", <<>>, vMacros \o vChecks)

\* The class a generated rule is checked on and the Member it names.
Targets ==
    { <<"QMLPropertyAssignment", "content">>,
      <<"QMLPropertyAssignment", "Name">>,
      <<"QMLPropertyAssignment", "type">>,
      <<"QMLBinaryOperation", "left">>,
      <<"QMLBinaryOperation", "Right">>,
      <<"QMLItem", "name">> }

AttrSets == { A \in SUBSET PredicateAttrs : Cardinality(A) <= MaxAttrs }

\* One rule, any predicate attributes, with or without a condition.
PredicateGrammars ==
    { Grammar(StandardMacros, <<Check(t[1], <<Rule(tag, t[2], A, "T", c)>>)>>) :
        t \in Targets, tag \in {"Accept", "Reject"}, A \in AttrSets, c \in { <<>> } }

\* One rule on the content of a property assignment, any conditions.
ConditionGrammars ==
    { Grammar(StandardMacros,
              <<Check("QMLPropertyAssignment", <<Rule(tag, "content", A, "T", c)>>)>>) :
        tag \in {"Accept", "Reject"},
        A \in { {"Value"}, {"Class"} },
        c \in DistinctSeqsUpTo(ConditionPool, MaxConds) }

\* Documents of several rules and checks.
RuleWith(tag, attributes, vConditions) == XMLNode(tag, attributes, vConditions)

RulePool ==
    { \* the documented rule against hardcoded colors
      RuleWith("Reject",
               ("Member" :> Str("content")) @@ ("Class" :> Str("QMLEntity"))
               @@ ("Text" :> Str("T1")),
               <<CondNameIsColor, CondContentNotTransparent>>),
      RuleWith("Accept",
               ("Member" :> Str("name")) @@ ("RegExp" :> Str("c.l.r"))
               @@ ("Text" :> Str("T2")), <<>>),
      RuleWith("Reject",
               ("Member" :> Str("name")) @@ ("List" :> Str("color,Rectangle"))
               @@ ("Text" :> Str("T3")), <<>>),
      RuleWith("Accept",
               ("Member" :> Str("content")) @@ ("Value" :> Str("$RED$"))
               @@ ("Text" :> Str("T4")), <<>>) }

CheckPool ==
    { Check(class, vRules) :
        class \in {"QMLPropertyAssignment", "QMLItem"},
        vRules \in DistinctSeqsUpTo(RulePool, MaxRules) \ {<<>>} }

FurtherChecks ==
    { Check("QMLPropertyAssignment",
            <<RuleWith("Reject",
                       ("Member" :> Str("name")) @@ ("Value" :> Str("$FOO$"))
                       @@ ("Text" :> Str("T5")), <<>>)>>),
      Check("QMLItem",
            <<RuleWith("Accept",
                       ("Member" :> Str("name")) @@ ("Value" :> Str("Item"))
                       @@ ("Text" :> Str("T6")), <<>>)>>) }

CheckGrammars ==
    { Grammar(StandardMacros, <<c>> \o more) :
        c \in CheckPool, more \in DistinctSeqsUpTo(FurtherChecks, MaxChecks - 1) }

Grammars == PredicateGrammars \cup ConditionGrammars \cup CheckGrammars

\* The file has an entity of the class of the first check of the document.
HasCheckedClass(xGrammar, f) ==
    \E n \in 1..Len(f.tree) :
        f.tree[n].className = Attr(getNodesByTagName(xGrammar, "Check")[1], "Class")

\* The runs: a rule document and a file. The documents of one rule are run on
\* the files that have an entity of the checked class, the others on every file.
Runs ==
    { <<g, f>> \in (PredicateGrammars \cup ConditionGrammars) \X Files :
        HasCheckedClass(g, f) }
    \cup (CheckGrammars \X Files)

-----------------------------------------------------------------------------
(* Inputs: conditions, the rule against hardcoded colors, nested items *)

MaxDepth == 4   \* items nested in a generated file

\* The contents of the property assignments of these files.
RuleShapes ==
    { <<Leaf("QMLEntity", Str("\"red\""), "String", <<7, 0>>)>>,
      <<Leaf("QMLEntity", Str("\"transparent\""), "String", <<7, 0>>)>>,
      <<Leaf("QMLIdentifier", Str("transparent"), "String", <<7, 0>>)>>,
      <<Leaf("QMLEntity", <<>>, "Invalid", <<7, 0>>)>> }

\* One property assignment at line 2, in a file of either name.
RuleFiles ==
    { [ tree |-> << Named("QMLPropertyAssignment", <<4, 2>>,
                          (Str("content") :> 3) @@ (Str("name") :> 2) @@ (Str("type") :> 0)),
                    Leaf("QMLIdentifier", name, "String", <<4, 2>>) >> \o shape,
        contents |-> <<1>>,
        fileName |-> fn,
        existing |-> {} ] :
        name \in { Str("color"), Str("x") }, shape \in RuleShapes,
        fn \in { Str("a.x"), Str("b.x") } }

\* A condition of the given attributes, those of an empty value left out.
ConditionOf(member, pairs) ==
    LET set == { a \in DOMAIN pairs : pairs[a] # "" }
    IN  Condition(("Member" :> Str(member)) @@ [a \in set |-> Str(pairs[a])])

EmptyConditions ==
    { ConditionOf(member, [Empty |-> empty, Negate |-> negate]) :
        member \in { "content", "Name", "type" },
        empty \in { "true", "false", "True" },
        negate \in { "", "true" } }

\* Conditions on a member that is null (type), or that the entity has not.
AbsentConditions ==
    { ConditionOf(member, [Value |-> value, Operation |-> operation, Negate |-> negate]) :
        member \in { "type", "Type", "missing" },
        value \in { "", "color", "x" },
        operation \in { "", "Contains" },
        negate \in { "", "true", "false" } }

FileNameConditions ==
    { ConditionOf(member, [Value |-> value, Operation |-> operation, Negate |-> negate]) :
        member \in { "filename", "FileName" },
        value \in { "a.x", "a" },
        operation \in { "", "Contains", "contains" },
        negate \in { "", "true", "True", "false" } }

\* The rule of the class documentation against hardcoded colors.
ColorRule ==
    RuleWith("Reject",
             ("Member" :> Str("content")) @@ ("Class" :> Str("QMLEntity"))
             @@ ("Text" :> Str("No hardcoded colors allowed")),
             <<CondNameIsColor, CondContentNotTransparent>>)

\* The document holding only the rule against hardcoded colors.
ColorGrammar == Grammar(<<>>, <<Check("QMLPropertyAssignment", <<ColorRule>>)>>)

\* One rule on the content of a property assignment, under one condition; and
\* the rule against hardcoded colors.
ConditionRuns ==
    ( { Grammar(<<>>, <<Check("QMLPropertyAssignment",
                              <<Rule(tag, "content", {"Class"}, "T", <<c>>)>>)>>) :
          tag \in {"Accept", "Reject"},
          c \in EmptyConditions \cup FileNameConditions \cup AbsentConditions }
      \cup { Grammar(<<>>, <<Check("QMLPropertyAssignment", <<ColorRule>>)>>) } )
    \X RuleFiles

\* Items nested one in the next, item i at line i, either as a child or as
\* the content of a property assignment of the item around it.
NestFile(links) ==
    LET D == Len(links) + 1
    IN  [ tree |->
            [ k \in 1..(2 * D - 1) |->
                IF k % 2 = 1
                THEN LET i == (k + 1) \div 2
                     IN  Entity("QMLItem", <<>>, "Invalid", <<i, i>>, 0, 0, NoFields,
                                IF i = D THEN <<>>
                                ELSE IF links[i] = "child" THEN <<k + 1, k + 2>>
                                ELSE <<k + 1>>,
                                TRUE, NoUnused)
                ELSE LET i == k \div 2
                     IN  Named("QMLPropertyAssignment", <<i + 1, i>>,
                               (Str("content") :> (IF links[i] = "member" THEN k + 1 ELSE 0))
                               @@ (Str("name") :> 0) @@ (Str("type") :> 0)) ],
          contents |-> <<1>>,
          fileName |-> Str("a.x"),
          existing |-> {} ]

\* Item { Item { Item { } }  Item { } }
BranchFile ==
    [ tree |-> << Entity("QMLItem", <<>>, "Invalid", <<1, 1>>, 0, 0, NoFields,
                         <<2, 4>>, TRUE, NoUnused),
                  Entity("QMLItem", <<>>, "Invalid", <<2, 2>>, 0, 0, NoFields,
                         <<3>>, TRUE, NoUnused),
                  Entity("QMLItem", <<>>, "Invalid", <<3, 3>>, 0, 0, NoFields,
                         <<>>, TRUE, NoUnused),
                  Entity("QMLItem", <<>>, "Invalid", <<2, 4>>, 0, 0, NoFields,
                         <<>>, TRUE, NoUnused) >>,
      contents |-> <<1>>,
      fileName |-> Str("a.x"),
      existing |-> {} ]

NestFiles ==
    { NestFile(links) : links \in SeqsUpTo({"child", "member"}, MaxDepth - 1) }
    \cup { BranchFile }

\* One rule with a NestedCount, on items.
NestedCountRule(tag, N) ==
    RuleWith(tag, ("NestedCount" :> Str(N)) @@ ("Text" :> Str("T")), <<>>)

NestRuns ==
    { Grammar(<<>>, <<Check("QMLItem", <<NestedCountRule(tag, N)>>)>>) :
        tag \in {"Accept", "Reject"}, N \in { "0", "1", "2", "3" } }
    \X NestFiles

-----------------------------------------------------------------------------
(* The analyzer *)

\* QMLAnalyzer::QMLAnalyzer: no context, no folder, no file, every flag false.
ConstructedSettings ==
    [ m_sFolder |-> <<>>, m_sFile |-> <<>>,
      m_bIncludeImports |-> FALSE, m_bIncludeSubFolders |-> FALSE,
      m_bRewriteFiles |-> FALSE, m_bRemoveUnreferencedSymbols |-> FALSE ]

\* No directory, no file.
EmptyDisk == [ dirs |-> <<>>, files |-> <<>>, marksImports |-> "never" ]

\* No QMLTreeContext was allocated and m_pContext is null (address 0); the
\* caller is in no call and holds no pointer.
NoContexts == [ objects |-> <<>>, m_pContext |-> 0 ]

IdleCaller == [ pc |-> "idle", p |-> 0, calls |-> 0 ]

\* No file is open for the lexer.
NoScope == [ m_sStream |-> <<>> ]

\* No list view is shown.
NoListView == [ m_iItemsPerPage |-> 0 ]

\* The run variables of an analyzer that analyzes one parsed file.
Constructed ==
    /\ m_pContext = "nullptr"
    /\ settings = ConstructedSettings
    /\ m_bStopAnalyzeRequested = FALSE
    /\ disk = EmptyDisk
    /\ frames = <<>>
    /\ events = <<>>
    /\ m_mContextMutex = "free"
    /\ contexts = NoContexts
    /\ caller = IdleCaller
    /\ scope = NoScope
    /\ listView = NoListView

Init ==
    /\ Constructed
    /\ pc = "idle"
    /\ \E run \in Runs :
         /\ m_xGrammar = run[1]
         /\ tree = run[2].tree
         /\ fileContents = run[2].contents
         /\ sFileName = run[2].fileName
         /\ existing = run[2].existing
    /\ m_mMacros = <<>>
    /\ m_vErrors = <<>>
    /\ emitted = <<>>
    /\ stack = <<>>
    /\ visited = <<>>
    /\ evals = <<>>
    /\ diags = <<>>
    /\ macroText = <<>>
    /\ macroResult = <<>>

\* QMLAnalyzer::analyze up to its call of analyzeFile: parseMacros, then the
\* error list is cleared.
\* A changed outputError: the entry is appended and no signal is emitted.
outputError_NoSignal(out, error) ==
    [ out EXCEPT !.m_vErrors = Append(@, error) ]

\* QMLAnalyzer::outputError on the error list and the notifications made so
\* far: the entry is appended, then analyzeError is emitted with the last
\* entry of the list.
outputError(out, error) ==
    LET appended == [ out EXCEPT !.m_vErrors = Append(@, error) ]
    IN  [ appended EXCEPT
            !.emitted = Append(@, appended.m_vErrors[Len(appended.m_vErrors)]) ]

\* The calls of outputError of one runGrammar_Recurse, in order.
RECURSIVE outputErrors(_, _)
outputErrors(out, errors) ==
    IF errors = <<>> THEN out
    ELSE outputErrors(outputError(out, Head(errors)), Tail(errors))

analyze ==
    /\ UNCHANGED runVars
    /\ pc = "idle"
    /\ m_mMacros' = parseMacros(m_xGrammar)
    /\ m_vErrors' = <<>>
    /\ diags' = <<>>
    /\ pc' = "analyzeFile"
    /\ UNCHANGED <<m_xGrammar, emitted, tree, fileContents, sFileName, existing,
                   stack, visited, evals, macroText, macroResult>>

\* QMLAnalyzer::analyzeFile on a file that parses, up to runGrammar, which
\* calls runGrammar_Recurse on each entity of pFile->contents().
analyzeFile ==
    /\ UNCHANGED runVars
    /\ pc = "analyzeFile"
    /\ stack' = fileContents
    /\ pc' = "runGrammar"
    /\ UNCHANGED <<m_xGrammar, m_mMacros, m_vErrors, emitted, tree, fileContents,
                   sFileName, existing, visited, evals, diags, macroText, macroResult>>

\* One call of QMLAnalyzer::runGrammar_Recurse, on the entity on top of the
\* stack: the unreferenced symbols, every rule of every matching check (each
\* outputError appends to m_vErrors and emits analyzeError), then the
\* recursive calls.
runGrammar_Recurse ==
    /\ UNCHANGED runVars
    /\ pc = "runGrammar"
    /\ stack # <<>>
    /\ LET n == Head(stack) IN
       IF n = 0
       THEN /\ stack' = Tail(stack)
            /\ UNCHANGED <<m_vErrors, emitted, visited, evals, diags>>
       ELSE LET unref   == UnreferencedOf(n)
                run     == RunChecks(n, getNodesByTagName(m_xGrammar, "Check"), 1)
                fired   == SelectSeq(run, LAMBDA e : e.fired)
                errors  ==
                    [i \in 1..Len(unref) |->
                        AnalyzerError(sFileName, tree[unref[i].entity].position,
                                      unref[i].text)]
                    \o
                    [i \in 1..Len(fired) |->
                        AnalyzerError(sFileName, tree[n].position,
                                      processMacros(Attr(fired[i].rule, "Text")))]
                origins ==
                    [i \in 1..Len(unref) |->
                        [kind |-> unref[i].kind, node |-> n, check |-> 0,
                         tag |-> "", rule |-> <<>>]]
                    \o
                    [i \in 1..Len(fired) |->
                        [kind |-> "rule", node |-> n, check |-> fired[i].check,
                         tag |-> fired[i].rule.tag, rule |-> fired[i].rule]]
                bHasRejects == fired # <<>>
                out     == outputErrors([ m_vErrors |-> m_vErrors,
                                          emitted |-> emitted ], errors)
            IN  /\ m_vErrors' = out.m_vErrors
                /\ emitted' = out.emitted
                /\ diags' = diags \o origins
                /\ evals' = evals \o run
                /\ visited' = Append(visited, n)
                /\ stack' = ChildCalls(n, bHasRejects) \o Tail(stack)
    /\ UNCHANGED <<pc, m_xGrammar, m_mMacros, tree, fileContents, sFileName,
                   existing, macroText, macroResult>>

\* runGrammar returns to analyzeFile and analyze returns.
analyzeReturn ==
    /\ UNCHANGED runVars
    /\ pc = "runGrammar"
    /\ stack = <<>>
    /\ pc' = "done"
    /\ UNCHANGED <<m_xGrammar, m_mMacros, m_vErrors, emitted, tree, fileContents,
                   sFileName, existing, stack, visited, evals, diags, macroText,
                   macroResult>>

Next == analyze \/ analyzeFile \/ runGrammar_Recurse \/ analyzeReturn

Spec == Init /\ [][Next]_vars

\* The same analyzer, on the documents and files of ConditionRuns and NestRuns.
InitRules ==
    /\ Constructed
    /\ pc = "idle"
    /\ \E run \in ConditionRuns \cup NestRuns :
         /\ m_xGrammar = run[1]
         /\ tree = run[2].tree
         /\ fileContents = run[2].contents
         /\ sFileName = run[2].fileName
         /\ existing = run[2].existing
    /\ m_mMacros = <<>>
    /\ m_vErrors = <<>>
    /\ emitted = <<>>
    /\ stack = <<>>
    /\ visited = <<>>
    /\ evals = <<>>
    /\ diags = <<>>
    /\ macroText = <<>>
    /\ macroResult = <<>>

SpecRules == InitRules /\ [][Next]_vars

-----------------------------------------------------------------------------
(* The parsing context, QMLTreeContext *)

\* QMLAnalyzerError::clear
NoError == AnalyzerError(<<>>, <<0, 0>>, <<>>)

\* QMLTreeContext::QMLTreeContext: no file, no scope, peSuccess, imports off.
NewContext ==
    [ m_vFiles |-> <<>>, m_sScopes |-> <<>>, m_eError |-> "peSuccess",
      m_tErrorObject |-> NoError, m_bIncludeImports |-> FALSE ]

\* A context c with what it did appended to a log: the value the operations
\* of the context work on.
Logged(c, log) == [ c |-> c, log |-> log ]

Emit(x, event) == [ x EXCEPT !.log = Append(@, event) ]

\* The scope on top of the stack (the SCOPE macro).
SCOPE(x) == x.c.m_sScopes[Len(x.c.m_sScopes)]

\* new QMLScope(pFile)
QMLScope(sFileName_) == [ m_pFile |-> sFileName_, m_eError |-> "peSuccess" ]

\* The index in m_vFiles of the first file of that name, 0 when there is none.
FileIndex(c, sFileName_) ==
    IF \E i \in 1..Len(c.m_vFiles) : c.m_vFiles[i].fileName = sFileName_
    THEN CHOOSE i \in 1..Len(c.m_vFiles) :
            /\ c.m_vFiles[i].fileName = sFileName_
            /\ \A j \in 1..(i - 1) : c.m_vFiles[j].fileName # sFileName_
    ELSE 0

\* QMLTreeContext::fileByFileName, for what it does to m_vFiles: a QMLFile,
\* not parsed, is appended when no file has that name.
fileByFileName(c, sFileName_) ==
    IF FileIndex(c, sFileName_) # 0 THEN c
    ELSE [ c EXCEPT !.m_vFiles = Append(@, [fileName |-> sFileName_, parsed |-> FALSE]) ]

\* QMLTreeContext::addFile
addFile(c, sFileName_) == fileByFileName(c, sFileName_)

\* QMLTreeContext::fileParsed
fileParsed(c, sFileName_) ==
    \E i \in 1..Len(c.m_vFiles) :
        c.m_vFiles[i].fileName = sFileName_ /\ c.m_vFiles[i].parsed

\* QMLTreeContext::setFileParsed
setFileParsed(c, sFileName_, bValue) ==
    IF FileIndex(c, sFileName_) = 0 THEN c
    ELSE [ c EXCEPT !.m_vFiles[FileIndex(c, sFileName_)].parsed = bValue ]

\* QMLTreeContext::setIncludeImports
setIncludeImports(c, bValue) == [ c EXCEPT !.m_bIncludeImports = bValue ]

\* QMLTreeContext::showError: the context and the current scope are in error,
\* the error object is that of the current scope's file.
showError_NoObject(x, sText) ==
    Emit([ x EXCEPT !.c.m_eError = "peSyntaxError",
                    !.c.m_sScopes[Len(x.c.m_sScopes)].m_eError = "peSyntaxError" ],
         <<"showError", SCOPE(x).m_pFile>>)

showError(x, sText) ==
    Emit([ x EXCEPT !.c.m_eError = "peSyntaxError",
                    !.c.m_sScopes[Len(x.c.m_sScopes)].m_eError = "peSyntaxError",
                    !.c.m_tErrorObject =
                        AnalyzerError(SCOPE(x).m_pFile, disk.files[SCOPE(x).m_pFile].errorAt,
                                      sText) ],
         <<"showError", SCOPE(x).m_pFile>>)

MaxScopes == 3   \* scopes on the stack: a file and the imports followed from it

\* The generated parser, on the file of the current scope: the import
\* statements come first, and each is handed to parseImportFile (the file may
\* then be marked as parsed); a syntax error in the rest of the file is
\* reported through showError.
RECURSIVE yyparse_Imports(_, _)
RECURSIVE parse_Internal(_)

\* The return of parseImportFile, with the scope stack as it was at the call
\* and as it is at the return.
parseImportFile_Return(x, returned) ==
    Emit(returned, <<"parseImportFileReturns", <<x.c.m_sScopes, returned.c.m_sScopes>>>>)

\* A changed parseImportFile: the scope of the import is not popped.
parseImportFile_NoPop(x, sFileName_) ==
    IF x.c.m_bIncludeImports /\ ~ fileParsed(x.c, sFileName_)
    THEN IF Len(x.c.m_sScopes) >= MaxScopes
         THEN Emit(x, <<"overflow", sFileName_>>)
         ELSE
         LET registered == [ x EXCEPT !.c = fileByFileName(x.c, sFileName_) ]
             pushed     == [ registered EXCEPT
                                !.c.m_sScopes = Append(@, QMLScope(sFileName_)) ]
             parsed     == parse_Internal(Emit(pushed, <<"importParsingStarted", sFileName_>>)).x
         IN  parseImportFile_Return(x, parsed)
    ELSE parseImportFile_Return(x, x)

\* QMLTreeContext::parseImportFile; its result is always peSuccess. The
\* recursion of imports is followed while the stack has fewer than MaxScopes
\* scopes; a call that would go deeper is logged as an overflow, and the run
\* is lost.
parseImportFile(x, sFileName_) ==
    IF x.c.m_bIncludeImports /\ ~ fileParsed(x.c, sFileName_)
    THEN IF Len(x.c.m_sScopes) >= MaxScopes
         THEN Emit(x, <<"overflow", sFileName_>>)
         ELSE
         LET registered == [ x EXCEPT !.c = fileByFileName(x.c, sFileName_) ]
             pushed     == [ registered EXCEPT
                                !.c.m_sScopes = Append(@, QMLScope(sFileName_)) ]
             parsed     == parse_Internal(Emit(pushed, <<"importParsingStarted", sFileName_>>)).x
         IN  parseImportFile_Return(
                 x, [ parsed EXCEPT !.c.m_sScopes = SubSeq(@, 1, Len(@) - 1) ])
    ELSE parseImportFile_Return(x, x)

yyparse_Imports(x, lImports) ==
    IF lImports = <<>> THEN x
    ELSE LET before   == IF disk.marksImports = "before"
                         THEN [ x EXCEPT !.c = setFileParsed(@, Head(lImports), TRUE) ]
                         ELSE x
             imported == parseImportFile(before, Head(lImports))
             marked   == IF disk.marksImports = "after"
                         THEN [ imported EXCEPT !.c = setFileParsed(@, Head(lImports), TRUE) ]
                         ELSE imported
         IN  yyparse_Imports(marked, Tail(lImports))

yyparse(x) ==
    LET sFile    == SCOPE(x).m_pFile
        started  == Emit(x, <<"yyparse", sFile>>)
        imported == yyparse_Imports(started, disk.files[sFile].imports)
    IN  IF disk.files[sFile].syntaxError
        THEN showError(imported, Str("syntax error"))
        ELSE imported

\* QMLTreeContext::parse_Internal: the parsed context and the value returned,
\* the error of the current scope.
parse_Internal(x) ==
    LET assumed == [ x EXCEPT !.c.m_sScopes[Len(x.c.m_sScopes)].m_eError = "peSuccess" ]
        parsed  == yyparse(assumed)
    IN  [ x |-> parsed, result |-> SCOPE(parsed).m_eError ]

\* A changed parse: parsingFinished is not emitted for a file whose parse
\* ended in a syntax error.
parse_File_SilentOnError(x, i) ==
    LET sFile    == x.c.m_vFiles[i].fileName
        pushed   == [ x EXCEPT !.c.m_sScopes = Append(@, QMLScope(sFile)) ]
        internal == parse_Internal(Emit(pushed, <<"parsingStarted", sFile>>))
        popped   == [ internal.x EXCEPT !.c.m_eError = internal.result,
                                        !.c.m_sScopes = <<>> ]
        solved   == Emit(Emit(Emit(popped, <<"solveSymbols", sFile>>),
                              <<"solveReferences", sFile>>),
                         <<"solveSymbolUsages", sFile>>)
        marked   == [ solved EXCEPT !.c.m_vFiles[i].parsed = TRUE ]
    IN  IF disk.files[sFile].syntaxError THEN marked
        ELSE Emit(marked, <<"parsingFinished", sFile>>)

\* The body of the foreach of QMLTreeContext::parse for the file at index i.
parse_File(x, i) ==
    LET sFile    == x.c.m_vFiles[i].fileName
        pushed   == [ x EXCEPT !.c.m_sScopes = Append(@, QMLScope(sFile)) ]
        internal == parse_Internal(Emit(pushed, <<"parsingStarted", sFile>>))
        popped   == [ internal.x EXCEPT !.c.m_eError = internal.result,
                                        !.c.m_sScopes = <<>> ]
        solved   == Emit(Emit(Emit(popped, <<"solveSymbols", sFile>>),
                              <<"solveReferences", sFile>>),
                         <<"solveSymbolUsages", sFile>>)
        marked   == [ solved EXCEPT !.c.m_vFiles[i].parsed = TRUE ]
    IN  Emit(marked, <<"parsingFinished", sFile>>)

\* The foreach of QMLTreeContext::parse: it runs over the files the context
\* had when the loop began, and parses those not parsed by then.
RECURSIVE parse_Loop(_, _, _)
parse_Loop(x, i, iCount) ==
    IF i > iCount THEN x
    ELSE parse_Loop(IF x.c.m_vFiles[i].parsed THEN x ELSE parse_File(x, i), i + 1, iCount)

\* QMLTreeContext::parse; the value returned is m_eError of the result.
\* The return of parse, with the scope stack as it is then.
parse_Return(parsed) == Emit(parsed, <<"parseReturns", parsed.c.m_sScopes>>)

\* A changed parse: the error of the context is left as the call finds it.
parse_ErrorKept(x) == parse_Return(parse_Loop(x, 1, Len(x.c.m_vFiles)))

parse(x) ==
    parse_Return(parse_Loop([ x EXCEPT !.c.m_eError = "peSuccess",
                                       !.c.m_tErrorObject = NoError ],
                            1, Len(x.c.m_vFiles)))

\* The log has an overflow of the recursion of imports; the log up to it.
Overflowed(log) == \E i \in 1..Len(log) : log[i][1] = "overflow"

UpToOverflow(log) ==
    SubSeq(log, 1, CHOOSE i \in 1..Len(log) :
                      /\ log[i][1] = "overflow"
                      /\ \A j \in 1..(i - 1) : log[j][1] # "overflow")

-----------------------------------------------------------------------------
(* Inputs: the directories and files of a run *)

MaxFolderFiles == 2   \* source files in the folder analyzed
MaxNotified == 1      \* notifications made before a further call of analyze

FolderFileNames == << Str("a"), Str("b"), Str("c") >>

\* QString("%1/%2").arg(sDirectory).arg(sFile)
FullName(sDirectory, sFile) == sDirectory \o <<"/">> \o sFile

\* A source file: whether the parser meets a syntax error in it and where,
\* the files its import statements name, and the entities the parser builds
\* from it, a property assignment  color: "red".
SourceFile(bSyntaxError, lImports) ==
    [ syntaxError |-> bSyntaxError,
      errorAt     |-> <<3, 5>>,
      imports     |-> lImports,
      tree        |-> << Named("QMLPropertyAssignment", <<4, 2>>,
                               (Str("content") :> 3) @@ (Str("name") :> 2)
                               @@ (Str("type") :> 0)),
                         Leaf("QMLIdentifier", Str("color"), "String", <<4, 2>>),
                         Leaf("QMLEntity", Str("\"red\""), "String", <<11, 2>>) >>,
      contents    |-> <<1>> ]

\* The folder d with the first k file names, and its subfolder d/s with the
\* file e when bSub; bad tells which files have a syntax error, imports what
\* each file imports.
Disk(k, bSub, bad, imports, sMarks) ==
    LET root  == Str("d")
        sub   == FullName(root, Str("s"))
        names == { FullName(root, FolderFileNames[i]) : i \in 1..k }
                 \cup (IF bSub THEN { FullName(sub, Str("e")) } ELSE {})
    IN  [ dirs  |-> (root :> [ files |-> SubSeq(FolderFileNames, 1, k),
                               dirs  |-> IF bSub THEN <<Str("s")>> ELSE <<>> ])
                    @@ (IF bSub
                        THEN sub :> [ files |-> <<Str("e")>>, dirs |-> <<>> ]
                        ELSE <<>>),
          files |-> [ f \in names |->
                        SourceFile(f \in bad,
                                   IF f \in DOMAIN imports THEN imports[f] ELSE <<>>) ],
          marksImports |-> sMarks ]

FileA == Str("d/a")
FileB == Str("d/b")
FileE == Str("d/s/e")

\* Folders whose files import nothing.
PlainDisks ==
    { Disk(k, bSub, bad, <<>>, "never") :
        k \in 1..MaxFolderFiles, bSub \in BOOLEAN,
        bad \in SUBSET { FileA, FileB, FileE } }

\* What the generated parser does with setFileParsed for an import: nothing,
\* or a call before parseImportFile, or a call after it.
ImportMarkings == { "never", "before", "after" }

\* What imports what, in the folders whose files import each other.
ImportPlans ==
    { FileA :> <<FileB>>,
      FileB :> <<FileA>>,
      FileA :> <<FileB, FileE>>,
      FileA :> <<FileE>>,
      (FileA :> <<FileB>>) @@ (FileB :> <<FileA>>),
      FileA :> <<FileA>> }

ImportDisks ==
    { Disk(k, TRUE, bad, imports, sMarks) :
        k \in 2..MaxFolderFiles, bad \in SUBSET { FileA, FileB, FileE },
        imports \in ImportPlans, sMarks \in ImportMarkings }

Settings(sFolder, sFile, bImports, bSubFolders, bRewrite, bRemove) ==
    [ m_sFolder |-> sFolder, m_sFile |-> sFile,
      m_bIncludeImports |-> bImports, m_bIncludeSubFolders |-> bSubFolders,
      m_bRewriteFiles |-> bRewrite, m_bRemoveUnreferencedSymbols |-> bRemove ]

\* The folder d, or the file d/a alone.
Targets_ == { <<Str("d"), <<>>>>, <<<<>>, FileA>> }

\* The runs: the settings and the disk.
FolderRuns ==
    { <<Settings(t[1], t[2], FALSE, bSubFolders, bRewrite, bRemove), d>> :
        t \in Targets_, bSubFolders \in BOOLEAN, bRewrite \in BOOLEAN,
        bRemove \in BOOLEAN, d \in PlainDisks }
    \cup
    { <<Settings(t[1], t[2], TRUE, TRUE, FALSE, FALSE), d>> :
        t \in Targets_, d \in ImportDisks }

-----------------------------------------------------------------------------
(* A run of the analyzer over a folder or a file, in its thread, and the
   caller that may stop it *)

\* The next call analyze_Recurse makes once the call it made has returned
\* true: the next file of the directory, then (with include subfolders) the
\* next sub-directory, else it returns true to its caller.
RECURSIVE analyze_Recurse_Continue(_)
analyze_Recurse_Continue(fr) ==
    IF fr = <<>> THEN [ frames |-> <<>>, pc |-> "finished", file |-> <<>> ]
    ELSE LET f == Head(fr)
             d == disk.dirs[f.sDirectory]
         IN  IF f.i <= Len(d.files)
             THEN [ frames |-> fr, pc |-> "analyzeFile",
                    file |-> FullName(f.sDirectory, d.files[f.i]) ]
             ELSE IF settings.m_bIncludeSubFolders /\ f.j <= Len(d.dirs)
             THEN [ frames |-> << [ sDirectory |-> FullName(f.sDirectory, d.dirs[f.j]),
                                    i |-> 1, j |-> 1 ] >> \o fr,
                    pc |-> "analyze_Recurse", file |-> <<>> ]
             ELSE IF Tail(fr) = <<>>
             THEN [ frames |-> <<>>, pc |-> "finished", file |-> <<>> ]
             ELSE analyze_Recurse_Continue(
                      << [ Head(Tail(fr)) EXCEPT !.j = @ + 1 ] >> \o Tail(Tail(fr)))

\* analyze_Recurse returns false, and so does every caller.
ReturnFalse == [ frames |-> <<>>, pc |-> "finished", file |-> <<>> ]

\* A changed loop: the stop request is not read after a file.
analyze_Recurse_AfterFile_NoCheck(fr) ==
    analyze_Recurse_Continue(<< [ Head(fr) EXCEPT !.i = @ + 1 ] >> \o Tail(fr))

\* analyze_Recurse after a call of analyzeFile: it returns false when a stop
\* is requested, else it goes on with the next file.
analyze_Recurse_AfterFile(fr) ==
    IF m_bStopAnalyzeRequested THEN ReturnFalse
    ELSE analyze_Recurse_Continue(<< [ Head(fr) EXCEPT !.i = @ + 1 ] >> \o Tail(fr))

\* The call analyzeFile(sFile), as an event, when that is the call made.
CallEvents(next) ==
    IF next.pc = "analyzeFile" THEN << <<"analyzeFile", next.file>> >> ELSE <<>>

\* A changed analyzeFile: the file is written whatever the rewrite files flag.
analyzeFile_RewriteEvents_Always(sFile, bOpens) ==
    (IF settings.m_bRemoveUnreferencedSymbols
     THEN << <<"removeUnreferencedSymbols", sFile>> >> ELSE <<>>)
    \o (IF bOpens THEN << <<"write", sFile>> >> ELSE <<>>)

\* What analyzeFile does after runGrammar: with rewrite files, the
\* unreferenced symbols are removed if that is asked, then the file is written
\* if it opens for writing.
analyzeFile_RewriteEvents(sFile, bOpens) ==
    IF settings.m_bRewriteFiles
    THEN (IF settings.m_bRemoveUnreferencedSymbols
          THEN << <<"removeUnreferencedSymbols", sFile>> >> ELSE <<>>)
         \o (IF bOpens THEN << <<"write", sFile>> >> ELSE <<>>)
    ELSE <<>>

InitRun ==
    /\ pc = "ready"
    /\ m_xGrammar = ColorGrammar
    /\ \E run \in FolderRuns :
         /\ settings = run[1]
         /\ disk = run[2]
    /\ m_pContext = "nullptr"
    /\ m_bStopAnalyzeRequested = FALSE
    /\ frames = <<>>
    /\ events = <<>>
    /\ m_mContextMutex = "free"
    /\ contexts = NoContexts
    /\ caller = IdleCaller
    /\ scope = NoScope
    /\ listView = NoListView
    /\ m_mMacros = <<>>
    /\ m_vErrors = <<>>
    /\ emitted = <<>>
    /\ tree = <<>>
    /\ fileContents = <<>>
    /\ sFileName = <<>>
    /\ existing = {}
    /\ stack = <<>>
    /\ visited = <<>>
    /\ evals = <<>>
    /\ diags = <<>>
    /\ macroText = <<>>
    /\ macroResult = <<>>

\* The log of events is that of the current call of analyze; it starts with
\* the number of notifications made before the call.
AnalyzeEvent == <<"analyze", Len(emitted)>>

\* The analyzeError notifications made since the current call of analyze.
Notified ==
    IF events = <<>> THEN emitted
    ELSE SubSeq(emitted, events[1][2] + 1, Len(emitted))

\* QMLAnalyzer::threadedAnalyze, run and analyze up to the call analyze makes:
\* the macros are parsed, a new context is allocated, the error list is
\* cleared; the folder is analyzed if one is set, else the file.
threadedAnalyze ==
    /\ UNCHANGED lockVars
    /\ pc \in { "ready", "finished" }
    /\ ~ m_bStopAnalyzeRequested
    /\ Len(emitted) <= MaxNotified
    /\ m_mMacros' = parseMacros(m_xGrammar)
    /\ m_pContext' = NewContext
    /\ m_vErrors' = <<>>
    /\ diags' = <<>>
    /\ IF settings.m_sFolder # <<>>
       THEN /\ frames' = << [ sDirectory |-> settings.m_sFolder, i |-> 1, j |-> 1 ] >>
            /\ pc' = "analyze_Recurse"
            /\ sFileName' = sFileName
            /\ events' = << AnalyzeEvent >>
       ELSE IF settings.m_sFile # <<>>
       THEN /\ frames' = <<>>
            /\ pc' = "analyzeFile"
            /\ sFileName' = settings.m_sFile
            /\ events' = << AnalyzeEvent, <<"analyzeFile", settings.m_sFile>> >>
       ELSE /\ frames' = <<>>
            /\ pc' = "finished"
            /\ sFileName' = sFileName
            /\ events' = << AnalyzeEvent >>
    /\ visited' = <<>>
    /\ evals' = <<>>
    /\ UNCHANGED <<m_xGrammar, emitted, tree, fileContents, existing, stack,
                   macroText, macroResult, settings, m_bStopAnalyzeRequested, disk>>

\* QMLAnalyzer::analyze_Recurse, from its entry to the first call it makes:
\* it returns false, and so does every caller, when a stop is requested.
analyze_Recurse ==
    /\ UNCHANGED lockVars
    /\ pc = "analyze_Recurse"
    /\ LET next == IF m_bStopAnalyzeRequested THEN ReturnFalse
                   ELSE analyze_Recurse_Continue(frames)
       IN  /\ frames' = next.frames
           /\ pc' = next.pc
           /\ sFileName' = IF next.pc = "analyzeFile" THEN next.file ELSE sFileName
           /\ events' = Append(events, <<"analyze_Recurse", Head(frames).sDirectory>>)
                         \o CallEvents(next)
    /\ UNCHANGED <<m_xGrammar, m_mMacros, m_vErrors, emitted, tree, fileContents,
                   existing, stack, visited, evals, diags, macroText, macroResult,
                   m_pContext, settings, m_bStopAnalyzeRequested, disk>>

\* Where analyzeFile returns to: analyze_Recurse, or analyze in file mode.
AfterFile == IF frames = <<>> THEN "finished" ELSE "fileDone"

\* QMLAnalyzer::analyzeFile up to the outcome of the parse: on success it
\* goes on to runGrammar, else it appends the context's error to the error
\* list, emits it and returns.
analyzeFile_Parse ==
    /\ UNCHANGED lockVars
    /\ pc = "analyzeFile"
    /\ LET added  == setIncludeImports(addFile(m_pContext, sFileName),
                                       settings.m_bIncludeImports)
           parsed == parse(Logged(added, events))
       IN  /\ m_pContext' = IF Overflowed(parsed.log) THEN added ELSE parsed.c
           /\ IF Overflowed(parsed.log)
              THEN /\ events' = UpToOverflow(parsed.log)
                   /\ pc' = "crashed"
                   /\ UNCHANGED <<m_vErrors, emitted, diags, tree, fileContents, stack>>
              ELSE IF parsed.c.m_eError = "peSuccess"
              THEN /\ tree' = disk.files[sFileName].tree
                   /\ fileContents' = disk.files[sFileName].contents
                   /\ stack' = disk.files[sFileName].contents
                   /\ events' = parsed.log \o << <<"peSuccess", sFileName>>,
                                                 <<"runGrammar", sFileName>> >>
                   /\ pc' = "runGrammar"
                   /\ UNCHANGED <<m_vErrors, emitted, diags>>
              ELSE /\ m_vErrors' = Append(m_vErrors, parsed.c.m_tErrorObject)
                   /\ emitted' = Append(emitted, parsed.c.m_tErrorObject)
                   /\ diags' = Append(diags, [ kind |-> "syntax", node |-> 0, check |-> 0,
                                               tag |-> "", rule |-> <<>> ])
                   /\ events' = parsed.log \o << <<"peSyntaxError", sFileName>>,
                                                 <<"analyzeError", sFileName>> >>
                   /\ pc' = AfterFile
                   /\ UNCHANGED <<tree, fileContents, stack>>
    /\ UNCHANGED <<m_xGrammar, m_mMacros, sFileName, existing, visited, evals,
                   macroText, macroResult, settings, m_bStopAnalyzeRequested, disk,
                   frames>>

\* QMLAnalyzer::analyzeFile after runGrammar: with rewrite files, the
\* unreferenced symbols are removed if that is asked, and the file is written
\* if it opens for writing; then analyzeFile returns.
analyzeFile_Rewrite ==
    /\ UNCHANGED lockVars
    /\ pc = "runGrammar"
    /\ stack = <<>>
    /\ \E bOpens \in BOOLEAN :
          events' = events \o analyzeFile_RewriteEvents(sFileName, bOpens)
                           \o << <<"analyzeFileReturns", sFileName>> >>
    /\ pc' = AfterFile
    /\ UNCHANGED <<m_xGrammar, m_mMacros, m_vErrors, emitted, tree, fileContents,
                   sFileName, existing, stack, visited, evals, diags, macroText,
                   macroResult, m_pContext, settings, m_bStopAnalyzeRequested, disk,
                   frames>>

\* QMLAnalyzer::analyze_Recurse after a call of analyzeFile: it returns
\* false, and so does every caller, when a stop is requested; else it goes on.
analyze_Recurse_Next ==
    /\ UNCHANGED lockVars
    /\ pc = "fileDone"
    /\ LET next == analyze_Recurse_AfterFile(frames)
       IN  /\ frames' = next.frames
           /\ pc' = next.pc
           /\ sFileName' = IF next.pc = "analyzeFile" THEN next.file ELSE sFileName
           /\ events' = events \o CallEvents(next)
    /\ UNCHANGED <<m_xGrammar, m_mMacros, m_vErrors, emitted, tree, fileContents,
                   existing, stack, visited, evals, diags, macroText, macroResult,
                   m_pContext, settings, m_bStopAnalyzeRequested, disk>>

\* The thread of the analysis is running.
isRunning == pc \notin { "ready", "finished", "crashed" }

\* QMLAnalyzer::stopThreadedAnalyze, called from another thread, up to wait().
stopThreadedAnalyze ==
    /\ UNCHANGED lockVars
    /\ isRunning
    /\ ~ m_bStopAnalyzeRequested
    /\ m_bStopAnalyzeRequested' = TRUE
    /\ events' = Append(events, <<"stop", m_vErrors>>)
    /\ UNCHANGED <<pc, m_xGrammar, m_mMacros, m_vErrors, emitted, tree, fileContents,
                   sFileName, existing, stack, visited, evals, diags, macroText,
                   macroResult, m_pContext, settings, disk, frames>>

\* QMLAnalyzer::stopThreadedAnalyze after wait(): the request is withdrawn.
stopThreadedAnalyze_Return ==
    /\ UNCHANGED lockVars
    /\ pc = "finished"
    /\ m_bStopAnalyzeRequested
    /\ m_bStopAnalyzeRequested' = FALSE
    /\ UNCHANGED <<pc, m_xGrammar, m_mMacros, m_vErrors, emitted, tree, fileContents,
                   sFileName, existing, stack, visited, evals, diags, macroText,
                   macroResult, m_pContext, settings, disk, frames, events>>

NextRun ==
    \/ threadedAnalyze
    \/ analyze_Recurse
    \/ analyzeFile_Parse
    \/ runGrammar_Recurse
    \/ analyzeFile_Rewrite
    \/ analyze_Recurse_Next
    \/ stopThreadedAnalyze
    \/ stopThreadedAnalyze_Return

SpecRun == InitRun /\ [][NextRun]_vars

-----------------------------------------------------------------------------
(* The context pointer and its mutex: the thread of the analysis and the     *)
(* thread that calls context(), clear() and errors()                         *)

MaxContexts == 3   \* QMLTreeContext objects allocated
MaxCalls    == 3   \* calls made by the calling thread

\* The variables the two threads leave alone here.
analyzerVars == <<m_xGrammar, m_mMacros, m_vErrors, emitted, tree, fileContents,
                  sFileName, existing, stack, visited, evals, diags, macroText,
                  macroResult, m_pContext, settings, m_bStopAnalyzeRequested, disk,
                  frames, scope, listView>>

\* if (m_pContext != nullptr) delete m_pContext;
DeleteContext(h) ==
    IF h.m_pContext = 0 THEN h
    ELSE [ h EXCEPT !.objects[h.m_pContext] = "deleted" ]

\* m_pContext = new QMLTreeContext();
NewContextObject(h) ==
    [ objects |-> Append(h.objects, "live"), m_pContext |-> Len(h.objects) + 1 ]

\* What a thread did to the object at an address: the thread, the address,
\* the state the object was in, and the holder of the mutex then.
Access(kind, by, address) ==
    << kind, [ by |-> by, address |-> address,
               state |-> IF address = 0 THEN "null" ELSE contexts.objects[address],
               mutex |-> m_mContextMutex ] >>

\* A delete or a use of an object already deleted is undefined: the program
\* goes on, or it is lost.
AfterAccess(address, next) ==
    IF address # 0 /\ contexts.objects[address] = "deleted"
    THEN { next, "crashed" }
    ELSE { next }

InitContext ==
    /\ Constructed
    /\ pc = "ready"
    /\ m_xGrammar = ColorGrammar
    /\ m_mMacros = <<>>
    /\ m_vErrors = <<>>
    /\ emitted = <<>>
    /\ tree = <<>>
    /\ fileContents = <<>>
    /\ sFileName = <<>>
    /\ existing = {}
    /\ stack = <<>>
    /\ visited = <<>>
    /\ evals = <<>>
    /\ diags = <<>>
    /\ macroText = <<>>
    /\ macroResult = <<>>

\* QMLAnalyzer::threadedAnalyze, called by the calling thread: the thread of
\* the analysis is started if it is not running.
threadedAnalyze_Start ==
    /\ pc \in { "ready", "finished" }
    /\ caller.pc = "idle"
    /\ caller.calls < MaxCalls
    /\ Len(contexts.objects) < MaxContexts
    /\ pc' = "run"
    /\ caller' = [ caller EXCEPT !.calls = @ + 1 ]
    /\ events' = Append(events, <<"threadedAnalyze", <<>>>>)
    /\ UNCHANGED <<m_mContextMutex, contexts>>
    /\ UNCHANGED analyzerVars

\* QMLAnalyzer::analyze in the thread of the analysis: the mutex is taken,
analyze_Lock ==
    /\ pc = "run"
    /\ m_mContextMutex = "free"
    /\ m_mContextMutex' = "worker"
    /\ pc' = "locked"
    /\ UNCHANGED <<contexts, caller, events>>
    /\ UNCHANGED analyzerVars

\* the context is deleted if there is one,
analyze_Delete ==
    /\ pc = "locked"
    /\ contexts' = DeleteContext(contexts)
    /\ events' = Append(events, Access("delete", "worker", contexts.m_pContext))
    /\ pc' \in AfterAccess(contexts.m_pContext, "new")
    /\ UNCHANGED <<m_mContextMutex, caller>>
    /\ UNCHANGED analyzerVars

\* a new one is allocated and the mutex is released,
analyze_New ==
    /\ pc = "new"
    /\ contexts' = NewContextObject(contexts)
    /\ m_mContextMutex' = "free"
    /\ pc' = "connect"
    /\ UNCHANGED <<caller, events>>
    /\ UNCHANGED analyzerVars

\* and the context m_pContext points to is used, by connect and by
\* analyzeFile, until analyze returns.
analyze_Use ==
    /\ pc = "connect"
    /\ events' = Append(events, Access("use", "worker", contexts.m_pContext))
    /\ pc' \in AfterAccess(contexts.m_pContext, "finished")
    /\ UNCHANGED <<m_mContextMutex, contexts, caller>>
    /\ UNCHANGED analyzerVars

\* QMLAnalyzer::context in the calling thread: the mutex is taken,
context_Lock ==
    /\ pc # "crashed"
    /\ caller.pc = "idle"
    /\ caller.calls < MaxCalls
    /\ m_mContextMutex = "free"
    /\ m_mContextMutex' = "caller"
    /\ caller' = [ caller EXCEPT !.pc = "context", !.calls = @ + 1 ]
    /\ UNCHANGED <<pc, contexts, events>>
    /\ UNCHANGED analyzerVars

\* and m_pContext is returned as the mutex is released.
context_Return ==
    /\ pc # "crashed"
    /\ caller.pc = "context"
    /\ caller' = [ caller EXCEPT !.pc = "idle", !.p = contexts.m_pContext ]
    /\ m_mContextMutex' = "free"
    /\ UNCHANGED <<pc, contexts, events>>
    /\ UNCHANGED analyzerVars

\* The calling thread uses the context it got from context().
caller_Use ==
    /\ pc # "crashed"
    /\ caller.pc = "idle"
    /\ caller.calls < MaxCalls
    /\ caller.p # 0
    /\ caller' = [ caller EXCEPT !.calls = @ + 1 ]
    /\ events' = Append(events, Access("use", "caller", caller.p))
    /\ pc' \in AfterAccess(caller.p, pc)
    /\ UNCHANGED <<m_mContextMutex, contexts>>
    /\ UNCHANGED analyzerVars

\* QMLAnalyzer::clear in the calling thread: the context is deleted if there
\* is one, the mutex not being taken,
clear_Delete ==
    /\ pc # "crashed"
    /\ caller.pc = "idle"
    /\ caller.calls < MaxCalls
    /\ Len(contexts.objects) < MaxContexts
    /\ contexts' = DeleteContext(contexts)
    /\ caller' = [ caller EXCEPT !.pc = "clear", !.calls = @ + 1 ]
    /\ events' = Append(events, Access("delete", "caller", contexts.m_pContext))
    /\ pc' \in AfterAccess(contexts.m_pContext, pc)
    /\ UNCHANGED m_mContextMutex
    /\ UNCHANGED analyzerVars

\* and a new one is allocated.
clear_New ==
    /\ pc # "crashed"
    /\ caller.pc = "clear"
    /\ contexts' = NewContextObject(contexts)
    /\ caller' = [ caller EXCEPT !.pc = "idle" ]
    /\ UNCHANGED <<pc, m_mContextMutex, events>>
    /\ UNCHANGED analyzerVars

\* QMLAnalyzer::errors in the calling thread: a reference to m_vErrors is
\* returned, the mutex not being taken.
errors ==
    /\ pc # "crashed"
    /\ caller.pc = "idle"
    /\ caller.calls < MaxCalls
    /\ caller' = [ caller EXCEPT !.calls = @ + 1 ]
    /\ events' = Append(events, <<"errors", [ mutex |-> m_mContextMutex, pc |-> pc ]>>)
    /\ UNCHANGED <<pc, m_mContextMutex, contexts>>
    /\ UNCHANGED analyzerVars

NextContext ==
    \/ threadedAnalyze_Start
    \/ analyze_Lock
    \/ analyze_Delete
    \/ analyze_New
    \/ analyze_Use
    \/ context_Lock
    \/ context_Return
    \/ caller_Use
    \/ clear_Delete
    \/ clear_New
    \/ errors

SpecContext == InitContext /\ [][NextContext]_vars

-----------------------------------------------------------------------------
(* The lexer: QMLTreeContext::nextToken, on the stream of the last scope     *)

MaxPieces == 2   \* pieces of text an input is made of (the narrow families have three more)

\* What getChar returns at the end of the stream.
EOF == "EOF"

\* "Whites are considered to be every ASCII code below 0x21": c > ' ' is false
\* for them, and for EOF, which is -1.
Whites == { " ", "\t", "\n", "\r" }
AboveSpace(c) == c # EOF /\ c \notin Whites

\* isdigit, isalpha and isalnum on the characters used.
isdigit(c) == IsDigit(c)
isalpha(c) == \E i \in 1..Len(Upper) : Upper[i] = c \/ Lower[i] = c
isalnum(c) == isalpha(c) \/ isdigit(c)

\* The scope of a file that was just opened: the stream at its start.
OpenScope(text) ==
    [ m_sStream |-> text, pos |-> 0,
      m_pCurrentTokenValue |-> <<>>,
      m_iCommentLevel |-> 0, m_bParsingFloat |-> FALSE, m_bParsingHexa |-> FALSE,
      m_iLine |-> 0, m_iColumn |-> 0, m_iPreviousLine |-> 0, m_iPreviousColumn |-> 0,
      m_eError |-> "peSuccess" ]

\* QTextStream::seek: a seek before the start of the device fails and leaves
\* the position where it was.
seek(s, to) == IF to < 0 THEN s.pos ELSE to

\* QMLTreeContext::getChar: EOF at the end, else the next character, read.
getChar(s) ==
    IF s.pos >= Len(s.m_sStream) THEN [ c |-> EOF, s |-> s ]
    ELSE LET iChar == s.m_sStream[s.pos + 1]
             read  == [ s EXCEPT !.pos = @ + 1 ]
         IN  [ c |-> iChar,
               s |-> CASE iChar = "\n" -> [ read EXCEPT !.m_iColumn = 0, !.m_iLine = @ + 1 ]
                       [] iChar = "\t" -> [ read EXCEPT !.m_iColumn = @ + 8 ]
                       [] iChar = "\r" -> read
                       [] OTHER        -> [ read EXCEPT !.m_iColumn = @ + 1 ] ]

\* A changed ungetChar: a tab is counted as one column.
ungetChar_TabIsOne(s, iChar) ==
    LET back == [ s EXCEPT !.pos = seek(s, @ - 1) ]
    IN  CASE iChar = "\n" -> [ back EXCEPT !.m_iColumn = 1024, !.m_iLine = @ - 1 ]
          [] iChar = "\r" -> back
          [] OTHER        -> [ back EXCEPT !.m_iColumn = @ - 1 ]

\* QMLTreeContext::ungetChar: the stream goes back by one character, whatever
\* iChar is, EOF included.
ungetChar(s, iChar) ==
    LET back == [ s EXCEPT !.pos = seek(s, @ - 1) ]
    IN  CASE iChar = "\n" -> [ back EXCEPT !.m_iColumn = 1024, !.m_iLine = @ - 1 ]
          [] iChar = "\t" -> [ back EXCEPT !.m_iColumn = @ - 8 ]
          [] iChar = "\r" -> back
          [] OTHER        -> [ back EXCEPT !.m_iColumn = @ - 1 ]

\* STORE(a): a is appended to the current token value.
STORE(s, a) == [ s EXCEPT !.m_pCurrentTokenValue = Append(@, a) ]

\* The member of the parser value (UParserValue) a call has set, if any.
NoValue == [ member |-> "none" ]
LVAL_String(text)  == [ member |-> "String", String |-> text ]
LVAL_Integer(n)    == [ member |-> "Integer", Integer |-> n ]
LVAL_Real(r)       == [ member |-> "Real", Real |-> r ]
LVAL_Boolean(b)    == [ member |-> "Boolean", Boolean |-> b ]

\* return 0: the end of the stream.
END_OF_STREAM == "0"

\* What a call of the lexer comes to: the token it returns, with the scope
\* and the parser value it leaves, or a loop it never leaves.
Return(s, token, LVAL) == [ returns |-> TRUE, token |-> token, LVAL |-> LVAL, s |-> s ]
NeverReturns(s) == [ returns |-> FALSE, token |-> "none", LVAL |-> NoValue, s |-> s ]

\* while (c != '\n') { GET(c); if (c == EOF) return 0; }
RECURSIVE parseNextToken_SkipLine(_)
parseNextToken_SkipLine(s) ==
    LET g == getChar(s)
    IN  IF g.c = EOF THEN [ out |-> "return 0", s |-> g.s ]
        ELSE IF g.c = "\n" THEN [ out |-> "continue", s |-> g.s ]
        ELSE parseNextToken_SkipLine(g.s)

\* One round of the loop that skips white spaces and comments.
parseNextToken_SkipRound(s) ==
    LET g == getChar(s)
        c == g.c
    IN  IF c = EOF THEN [ out |-> "return 0", s |-> g.s ]
        ELSE IF g.s.m_iCommentLevel > 0
        THEN IF c = "*"
             THEN LET h == getChar(g.s)
                  IN  IF h.c = "/"
                      THEN [ out |-> "continue",
                             s |-> [ h.s EXCEPT !.m_iCommentLevel = @ - 1 ] ]
                      ELSE [ out |-> "continue", s |-> ungetChar(h.s, h.c) ]
             ELSE [ out |-> "continue", s |-> g.s ]
        ELSE IF c = "/"
        THEN LET h == getChar(g.s)
             IN  IF h.c = "*"
                 THEN [ out |-> "continue",
                        s |-> [ h.s EXCEPT !.m_iCommentLevel = @ + 1 ] ]
                 ELSE IF h.c = "/"
                 THEN IF h.s.m_iCommentLevel = 0
                      THEN parseNextToken_SkipLine(h.s)
                      ELSE [ out |-> "continue", s |-> h.s ]
                 ELSE [ out |-> "break", s |-> ungetChar(ungetChar(h.s, h.c), c) ]
        ELSE IF AboveSpace(c)
             THEN [ out |-> "break", s |-> ungetChar(g.s, c) ]
             ELSE [ out |-> "continue", s |-> g.s ]

\* while (true) { ... }: a round that leaves the scope as it found it is
\* repeated for ever.
RECURSIVE parseNextToken_Skip(_)
parseNextToken_Skip(s) ==
    LET round == parseNextToken_SkipRound(s)
    IN  IF round.out # "continue" THEN round
        ELSE IF round.s = s THEN [ out |-> "never returns", s |-> s ]
        ELSE parseNextToken_Skip(round.s)

\* The operators of one, two and three characters.
OneChar ==
    ("+" :> "TOKEN_ADD") @@ ("-" :> "TOKEN_SUB") @@ ("*" :> "TOKEN_MUL")
    @@ ("/" :> "TOKEN_DIV") @@ ("%" :> "TOKEN_MOD") @@ ("&" :> "TOKEN_AND")
    @@ ("|" :> "TOKEN_OR") @@ ("^" :> "TOKEN_XOR") @@ ("<" :> "TOKEN_LOWER")
    @@ (">" :> "TOKEN_GREATER") @@ ("=" :> "TOKEN_ASSIGN") @@ ("!" :> "TOKEN_NOT")

TwoChars ==
    (<<"+", "+">> :> "TOKEN_INC") @@ (<<"+", "=">> :> "TOKEN_ADD_ASSIGN")
    @@ (<<"-", "-">> :> "TOKEN_DEC") @@ (<<"-", "=">> :> "TOKEN_SUB_ASSIGN")
    @@ (<<"*", "=">> :> "TOKEN_MUL_ASSIGN") @@ (<<"/", "=">> :> "TOKEN_DIV_ASSIGN")
    @@ (<<"%", "=">> :> "TOKEN_MOD_ASSIGN")
    @@ (<<"&", "&">> :> "TOKEN_LOGICAL_AND") @@ (<<"&", "=">> :> "TOKEN_AND_ASSIGN")
    @@ (<<"|", "|">> :> "TOKEN_LOGICAL_OR") @@ (<<"|", "=">> :> "TOKEN_OR_ASSIGN")
    @@ (<<"^", "=">> :> "TOKEN_XOR_ASSIGN")
    @@ (<<"<", "=">> :> "TOKEN_LOWER_EQUALS") @@ (<<"<", ">">> :> "TOKEN_NOT_EQUALS")
    @@ (<<">", "=">> :> "TOKEN_GREATER_EQUALS")
    @@ (<<"!", "!">> :> "TOKEN_NOT_NOT")

\* After the two characters, a third one: '=' gives the first token, any
\* other character is put back and gives the second.
ThreeChars ==
    (<<"<", "<">> :> <<"TOKEN_SHL_ASSIGN", "TOKEN_SHL">>)
    @@ (<<">", ">">> :> <<"TOKEN_SHR_ASSIGN", "TOKEN_SHR">>)
    @@ (<<"=", "=">> :> <<"TOKEN_EQUALS_CHECK", "TOKEN_EQUALS">>)
    @@ (<<"!", "=">> :> <<"TOKEN_NOT_EQUALS_CHECK", "TOKEN_NOT_EQUALS">>)

\* A changed lexer: no third character is looked at, "<<", ">>", "==" and
\* "!=" are returned as they are.
parseNextToken_Operator_TwoAtMost(s, c) ==
    LET h == getChar(STORE(s, c))
        d == h.c
    IN  IF <<c, d>> \in DOMAIN ThreeChars
        THEN Return(STORE(h.s, d), ThreeChars[<<c, d>>][2], NoValue)
        ELSE IF <<c, d>> \in DOMAIN TwoChars
        THEN Return(STORE(h.s, d), TwoChars[<<c, d>>], NoValue)
        ELSE Return(ungetChar(h.s, d), OneChar[c], NoValue)

\* if (c == '+') { STORE(c); GET(d); ... UNGET(d); return TOKEN_ADD; } and
\* the eleven branches like it.
parseNextToken_Operator(s, c) ==
    LET h == getChar(STORE(s, c))
        d == h.c
    IN  IF <<c, d>> \in DOMAIN ThreeChars
        THEN LET k == getChar(STORE(h.s, d))
             IN  IF k.c = "="
                 THEN Return(STORE(k.s, k.c), ThreeChars[<<c, d>>][1], NoValue)
                 ELSE Return(ungetChar(k.s, k.c), ThreeChars[<<c, d>>][2], NoValue)
        ELSE IF <<c, d>> \in DOMAIN TwoChars
        THEN Return(STORE(h.s, d), TwoChars[<<c, d>>], NoValue)
        ELSE Return(ungetChar(h.s, d), OneChar[c], NoValue)

\* The '[' of the version left in a comment above it: no white space is
\* skipped. GET(d); if (d == ']') { STORE(d); return TOK_DIMENSION; }
\* UNGET(d); return c;
parseNextToken_Dimension_NoWhites(s) ==
    LET g == getChar(s)
    IN  IF g.c = "]"
        THEN Return(STORE(g.s, g.c), "TOKEN_DIMENSION", NoValue)
        ELSE Return(ungetChar(g.s, g.c), "[", NoValue)

\* if (c == '[') { STORE(c); while (1) { GET(d); if (d > ' ') { ... } } return c; }
\* with s the scope after STORE(c).
RECURSIVE parseNextToken_Dimension(_)
parseNextToken_Dimension(s) ==
    LET g == getChar(s)
        d == g.c
    IN  IF AboveSpace(d)
        THEN IF d = "]"
             THEN Return(STORE(g.s, d), "TOKEN_DIMENSION", NoValue)
             ELSE Return(ungetChar(g.s, d), "[", NoValue)
        ELSE IF g.s = s THEN NeverReturns(s)
        ELSE parseNextToken_Dimension(g.s)

\* QMLTreeContext::parseEscape
Escapes ==
    ("\"" :> "\"") @@ ("\\" :> "\\") @@ ("a" :> "<BEL>") @@ ("b" :> "<BS>")
    @@ ("f" :> "\f") @@ ("n" :> "\n") @@ ("r" :> "\r") @@ ("t" :> "\t")
    @@ ("v" :> "<VT>")

parseEscape(s) ==
    LET g == getChar(s)
    IN  [ s |-> g.s, c |-> IF g.c \in DOMAIN Escapes THEN Escapes[g.c] ELSE " " ]

\* if (c == '"') { while (1) { GET(c); if (c == EOF) return 0; if (c == '"') break;
\* if (c == '\\') c = parseEscape(); STORE(c); } ... return TOKEN_LITERAL; }
\* and the same for '\''.
RECURSIVE parseNextToken_Literal(_, _)
parseNextToken_Literal(s, quote) ==
    LET g == getChar(s)
    IN  IF g.c = EOF THEN Return(g.s, END_OF_STREAM, NoValue)
        ELSE IF g.c = quote
        THEN Return(g.s, "TOKEN_LITERAL", LVAL_String(g.s.m_pCurrentTokenValue))
        ELSE IF g.c = "\\"
        THEN LET e == parseEscape(g.s)
             IN  parseNextToken_Literal(STORE(e.s, e.c), quote)
        ELSE parseNextToken_Literal(STORE(g.s, g.c), quote)

\* QString::toDouble: the value as units / 10^decimals, 0 when the text is
\* not a number.
toDouble(text) ==
    LET digits == SelectSeq(text, IsDigit)
        dots   == { i \in 1..Len(text) : text[i] = "." }
    IN  IF /\ digits # <<>>
           /\ Cardinality(dots) <= 1
           /\ Len(digits) + Cardinality(dots) = Len(text)
        THEN [ units |-> toInt(digits),
               decimals |-> IF dots = {} THEN 0
                            ELSE Len(text) - (CHOOSE i \in dots : TRUE) ]
        ELSE [ units |-> 0, decimals |-> 0 ]

HexLetters == { "a", "b", "c", "d", "e", "f", "A", "B", "C", "D", "E", "F" }

\* The loop of QMLTreeContext::parseNumber: the scope when Done is true.
RECURSIVE parseNumber_Loop(_)
parseNumber_Loop(s) ==
    LET g == getChar(s)
        c == g.c
    IN  IF isdigit(c) THEN parseNumber_Loop(STORE(g.s, c))
        ELSE IF c \in HexLetters
        THEN IF g.s.m_bParsingHexa
             THEN parseNumber_Loop(STORE(g.s, c))
             ELSE ungetChar(g.s, c)
        ELSE IF c = "."
        THEN IF ~ g.s.m_bParsingFloat
             THEN parseNumber_Loop(STORE([ g.s EXCEPT !.m_bParsingFloat = TRUE ], c))
             ELSE ungetChar(g.s, c)
        ELSE ungetChar(g.s, c)

\* QMLTreeContext::parseNumber
parseNumber(s) ==
    LET done == parseNumber_Loop(s)
        text == done.m_pCurrentTokenValue
    IN  IF done.m_bParsingFloat
        THEN Return(done, "TOKEN_REALCONSTANT", LVAL_Real(toDouble(text)))
        ELSE IF done.m_bParsingHexa
        THEN Return(done, "TOKEN_INTEGERCONSTANT", LVAL_Integer(toInt(text)))
        ELSE Return(done, "TOKEN_INTEGERCONSTANT", LVAL_Integer(toInt(text)))

\* QMLTreeContext::m_mTokens, as the constructor fills it.
m_mTokens ==
    (Str("import") :> "TOKEN_IMPORT") @@ (Str("property") :> "TOKEN_PROPERTY")
    @@ (Str("default") :> "TOKEN_DEFAULT") @@ (Str("readonly") :> "TOKEN_READ_ONLY")
    @@ (Str("alias") :> "TOKEN_ALIAS") @@ (Str("function") :> "TOKEN_FUNCTION")
    @@ (Str("if") :> "TOKEN_IF") @@ (Str("else") :> "TOKEN_ELSE")
    @@ (Str("for") :> "TOKEN_FOR") @@ (Str("in") :> "TOKEN_IN")
    @@ (Str("while") :> "TOKEN_WHILE") @@ (Str("switch") :> "TOKEN_SWITCH")
    @@ (Str("case") :> "TOKEN_CASE") @@ (Str("break") :> "TOKEN_BREAK")
    @@ (Str("continue") :> "TOKEN_CONTINUE") @@ (Str("with") :> "TOKEN_WITH")
    @@ (Str("return") :> "TOKEN_RETURN") @@ (Str("typeof") :> "TOKEN_TYPEOF")
    @@ (Str("pragma") :> "TOKEN_PRAGMA") @@ (Str("on") :> "TOKEN_ON")
    @@ (Str("as") :> "TOKEN_AS") @@ (Str("signal") :> "TOKEN_SIGNAL")
    @@ (Str("var") :> "TOKEN_VAR") @@ (Str("new") :> "TOKEN_NEW")

\* do { STORE(c); GET(c); } while (c != EOF && (isalnum(c) || c == '_' | c == '$'));
\* UNGET(c);
RECURSIVE parseNextToken_Word(_, _)
parseNextToken_Word(s, c) ==
    LET g == getChar(STORE(s, c))
    IN  IF g.c # EOF /\ (isalnum(g.c) \/ g.c = "_" \/ g.c = "$")
        THEN parseNextToken_Word(g.s, g.c)
        ELSE ungetChar(g.s, g.c)

\* The word is a boolean constant, a keyword or an identifier.
parseNextToken_Identifier(s, c) ==
    LET done == parseNextToken_Word(s, c)
        text == done.m_pCurrentTokenValue
    IN  IF toLower(text) = Str("true")
        THEN Return(done, "TOKEN_BOOLCONSTANT", LVAL_Boolean(TRUE))
        ELSE IF toLower(text) = Str("false")
        THEN Return(done, "TOKEN_BOOLCONSTANT", LVAL_Boolean(FALSE))
        ELSE IF text \in DOMAIN m_mTokens
        THEN Return(done, m_mTokens[text], NoValue)
        ELSE Return(done, "TOKEN_IDENTIFIER", LVAL_String(text))

\* QMLTreeContext::parseNextToken after the white spaces and the comments.
parseNextToken_Token(skipped) ==
    LET s == [ skipped EXCEPT !.m_iPreviousLine = skipped.m_iLine,
                              !.m_iPreviousColumn = skipped.m_iColumn ]
        g == getChar(s)
        c == g.c
    IN  IF c = EOF THEN Return(g.s, END_OF_STREAM, NoValue)
        ELSE IF c \in DOMAIN OneChar THEN parseNextToken_Operator(g.s, c)
        ELSE IF c = "~" THEN Return(STORE(g.s, c), "TOKEN_COMPLEMENT", NoValue)
        ELSE IF c = "[" THEN parseNextToken_Dimension(STORE(g.s, c))
        ELSE IF c = "\"" \/ c = "'" THEN parseNextToken_Literal(g.s, c)
        ELSE IF c = "."
        THEN LET h == getChar(g.s)
                 d == h.c
             IN  IF isdigit(d)
                 THEN parseNumber(
                          STORE(STORE(STORE([ h.s EXCEPT !.m_bParsingFloat = TRUE ],
                                            "0"), c), d))
                 ELSE Return(ungetChar(STORE(h.s, c), d), c, NoValue)
        ELSE IF isdigit(c)
        THEN IF c = "0"
             THEN LET h == getChar(g.s)
                      d == h.c
                  IN  IF d = "x" \/ d = "X"
                      THEN parseNumber(
                               [ STORE(STORE(h.s, c), d) EXCEPT !.m_bParsingHexa = TRUE ])
                      ELSE parseNumber(STORE(ungetChar(h.s, d), c))
             ELSE parseNumber(STORE(g.s, c))
        ELSE IF isalpha(c) \/ c = "_" \/ c = "$"
        THEN parseNextToken_Identifier(g.s, c)
        ELSE Return(STORE(g.s, c), c, NoValue)

\* The scope at the start of QMLTreeContext::parseNextToken: the token value
\* cleared, no comment, no float, no hexadecimal number.
parseNextToken_Start(s) ==
    [ s EXCEPT !.m_pCurrentTokenValue = <<>>, !.m_iCommentLevel = 0,
               !.m_bParsingFloat = FALSE, !.m_bParsingHexa = FALSE ]

\* QMLTreeContext::parseNextToken
parseNextToken(s) ==
    LET skipped == parseNextToken_Skip(parseNextToken_Start(s))
    IN  CASE skipped.out = "return 0" -> Return(skipped.s, END_OF_STREAM, NoValue)
          [] skipped.out = "never returns" -> NeverReturns(skipped.s)
          [] OTHER -> parseNextToken_Token(skipped.s)

\* Where the stream is when the white spaces and the comments are skipped.
TokenStart(s) == parseNextToken_Skip(parseNextToken_Start(s)).s.pos

\* The inputs: texts made of a few pieces.
RECURSIVE Joined(_)
Joined(pieces) ==
    IF pieces = <<>> THEN <<>> ELSE Str(Head(pieces)) \o Joined(Tail(pieces))

Texts(pieces, n) == { Joined(q) : q \in UNION { [1..k -> pieces] : k \in 0..n } }

AnyPieces ==
    { "a", "if", "True", "1", "0x", "f", ".", "+", "=", "<", "/", "*", "[", "]",
      " ", "\n", "\"", "'", "\\", "~", "}" }
CommentPieces  == { "/*", "*/", "a", " " }
BracketPieces  == { "[", "]", " ", "a" }
NumberPieces   == { "0x", "0X", "0", "1", "f", "A", "g", ".", " " }
OperatorPieces == { "<", ">", "=", "!", "+" }
LiteralPieces  == { "\"", "'", "a", "\\", "n" }
WordPieces     == { "true", "false", "True", "FALSE", "if", "If", "var", "a", "_",
                    "$", "1", " " }

\* Each operator, alone and followed by one character and the letter a.
OperatorSpellings ==
    { <<c>> : c \in DOMAIN OneChar } \cup { <<"~">> }
    \cup DOMAIN TwoChars
    \cup DOMAIN ThreeChars
    \cup { q \o <<"=">> : q \in DOMAIN ThreeChars }
OperatorFollowers ==
    { "a", "1", " ", "\n", "\t", "+", "-", "*", "/", "=", "<", ">", "!", "&", "|",
      "~", "\"", "[", "}" }
OperatorTexts ==
    OperatorSpellings
    \cup { q \o <<c, "a">> : q \in OperatorSpellings, c \in OperatorFollowers }

LexInputs ==
    Texts(AnyPieces, MaxPieces)
    \cup OperatorTexts
    \cup Texts(CommentPieces, MaxPieces + 3)
    \cup Texts(BracketPieces, MaxPieces + 3)
    \cup Texts(NumberPieces, MaxPieces + 1)
    \cup Texts(OperatorPieces, MaxPieces + 1)
    \cup Texts(LiteralPieces, MaxPieces + 1)
    \cup Texts(WordPieces, MaxPieces)

\* A scope is pushed for a file whose text is one of texts.
InitScope(texts) ==
    /\ pc = "lexing"
    /\ \E text \in texts : scope = OpenScope(text)
    /\ listView = NoListView
    /\ m_pContext = "nullptr"
    /\ settings = ConstructedSettings
    /\ m_bStopAnalyzeRequested = FALSE
    /\ disk = EmptyDisk
    /\ frames = <<>>
    /\ events = <<>>
    /\ m_mContextMutex = "free"
    /\ contexts = NoContexts
    /\ caller = IdleCaller
    /\ m_xGrammar = ColorGrammar
    /\ m_mMacros = <<>>
    /\ m_vErrors = <<>>
    /\ emitted = <<>>
    /\ tree = <<>>
    /\ fileContents = <<>>
    /\ sFileName = <<>>
    /\ existing = {}
    /\ stack = <<>>
    /\ visited = <<>>
    /\ evals = <<>>
    /\ diags = <<>>
    /\ macroText = <<>>
    /\ macroResult = <<>>

InitLexer == InitScope(LexInputs)

\* QMLTreeContext::nextToken, called by the parser until it returns 0. A
\* lexer that ends gives at most one token for each character, so one call
\* more than that is enough to see one that does not.
nextToken ==
    /\ pc = "lexing"
    /\ Len(events) <= Len(scope.m_sStream)
    /\ LET r == parseNextToken(scope)
       IN  /\ scope' = r.s
           /\ events' = Append(events,
                  << "nextToken",
                     [ returns |-> r.returns, token |-> r.token, LVAL |-> r.LVAL,
                       value |-> r.s.m_pCurrentTokenValue,
                       from |-> TokenStart(scope), to |-> r.s.pos ] >>)
           /\ pc' = IF ~ r.returns THEN "hung"
                    ELSE IF r.token = END_OF_STREAM THEN "atEnd"
                    ELSE "lexing"
    /\ UNCHANGED <<m_mContextMutex, contexts, caller, listView>>
    /\ UNCHANGED <<m_xGrammar, m_mMacros, m_vErrors, emitted, tree, fileContents,
                   sFileName, existing, stack, visited, evals, diags, macroText,
                   macroResult, m_pContext, settings, m_bStopAnalyzeRequested, disk,
                   frames>>

NextLexer == nextToken

SpecLexer == InitLexer /\ [][NextLexer]_vars

-----------------------------------------------------------------------------
(* The reader on its own: GET and UNGET on the stream of a scope *)

MaxChars == 2   \* length of the text read
MaxReads == 5   \* calls of getChar and ungetChar in a run

ReaderChars == { "a", "\n", "\t", "\r" }
ReaderTexts == UNION { [1..k -> ReaderChars] : k \in 0..MaxChars }

InitReader == InitScope(ReaderTexts)

\* The values GET returned that no UNGET has put back yet, the last one last.
RECURSIVE Pending(_)
Pending(log) ==
    IF log = <<>> THEN <<>>
    ELSE LET before == Pending(SubSeq(log, 1, Len(log) - 1))
             last   == log[Len(log)]
         IN  IF last[1] = "getChar" THEN Append(before, last[2].c)
             ELSE SubSeq(before, 1, Len(before) - 1)

\* GET(a): a = getChar().
GET ==
    /\ pc = "lexing"
    /\ Len(events) < MaxReads
    /\ LET g == getChar(scope)
       IN  /\ scope' = g.s
           /\ events' = Append(events,
                  << "getChar", [ c |-> g.c, before |-> scope, after |-> g.s ] >>)
    /\ UNCHANGED <<pc, m_mContextMutex, contexts, caller, listView>>
    /\ UNCHANGED <<m_xGrammar, m_mMacros, m_vErrors, emitted, tree, fileContents,
                   sFileName, existing, stack, visited, evals, diags, macroText,
                   macroResult, m_pContext, settings, m_bStopAnalyzeRequested, disk,
                   frames>>

\* UNGET(a): ungetChar(a), with a the last value that GET gave and that was
\* not put back.
UNGET ==
    /\ pc = "lexing"
    /\ Len(events) < MaxReads
    /\ Pending(events) # <<>>
    /\ LET a == Pending(events)[Len(Pending(events))]
           u == ungetChar(scope, a)
       IN  /\ scope' = u
           /\ events' = Append(events,
                  << "ungetChar", [ c |-> a, before |-> scope, after |-> u ] >>)
    /\ UNCHANGED <<pc, m_mContextMutex, contexts, caller, listView>>
    /\ UNCHANGED <<m_xGrammar, m_mMacros, m_vErrors, emitted, tree, fileContents,
                   sFileName, existing, stack, visited, evals, diags, macroText,
                   macroResult, m_pContext, settings, m_bStopAnalyzeRequested, disk,
                   frames>>

NextReader == GET \/ UNGET

SpecReader == InitReader /\ [][NextReader]_vars

-----------------------------------------------------------------------------
(* The list view of a web page: CWebListView *)

MaxItems        == 12  \* items of the model
MaxItemsPerPage == 3   \* items per page read back by deserialize

\* m_iItemsPerPage as the constructors set it.
DefaultItemsPerPage == 10
MaxEvents       == 4   \* events of the controls in a run

DecimalDigits == << "0", "1", "2", "3", "4", "5", "6", "7", "8", "9" >>

\* QString::number
RECURSIVE number(_)
number(n) ==
    IF n < 0 THEN <<"-">> \o number(0 - n)
    ELSE IF n < 10 THEN << DecimalDigits[n + 1] >>
    ELSE number(n \div 10) \o << DecimalDigits[(n % 10) + 1] >>

\* The division of two ints, which rounds toward zero.
IntDiv(a, b) == IF a >= 0 THEN a \div b ELSE 0 - ((0 - a) \div b)

\* CWebListView::setModel: the items asked of the model provider.
setModel(v) ==
    [ v EXCEPT !.modelItems = [ iStartIndex |-> v.m_iCurrentPage * v.m_iItemsPerPage,
                                iCount |-> v.m_iItemsPerPage ] ]

\* CWebListView::CWebListView on a model of iTotalCount items, and the items
\* per page as they are set or read back by deserialize.
CWebListView(iTotalCount, iItemsPerPage) ==
    setModel([ m_iItemsPerPage |-> iItemsPerPage, m_iCurrentPage |-> 0,
               modelItemCount |-> iTotalCount,
               CurrentPageIndex |-> <<>>, TotalPageCount |-> <<>>,
               modelItems |-> [ iStartIndex |-> 0, iCount |-> 0 ] ])

PageControls == { "FirstPage", "PreviousPage", "NextPage", "LastPage" }

\* The if / else if chain of CWebListView::controlEvent: the current page
\* after the event of the control named sName.
controlEvent_Page(v, sName) ==
    LET iTotalCount == v.modelItemCount
    IN  CASE sName = "FirstPage" -> 0
          [] sName = "PreviousPage" ->
                IF v.m_iCurrentPage > 0 THEN v.m_iCurrentPage - 1 ELSE v.m_iCurrentPage
          [] sName = "NextPage" ->
                IF v.m_iCurrentPage * v.m_iItemsPerPage + v.m_iItemsPerPage < iTotalCount
                THEN v.m_iCurrentPage + 1 ELSE v.m_iCurrentPage
          [] sName = "LastPage" -> IntDiv(iTotalCount, v.m_iItemsPerPage) - 1
          [] OTHER -> v.m_iCurrentPage

InitListView ==
    /\ pc = "listView"
    /\ listView \in { CWebListView(iTotalCount, iItemsPerPage) :
                         iTotalCount \in 0..MaxItems,
                         iItemsPerPage \in (1..MaxItemsPerPage) \cup { DefaultItemsPerPage } }
    /\ scope = NoScope
    /\ tree = <<>>
    /\ m_pContext = "nullptr"
    /\ settings = ConstructedSettings
    /\ m_bStopAnalyzeRequested = FALSE
    /\ disk = EmptyDisk
    /\ frames = <<>>
    /\ events = <<>>
    /\ m_mContextMutex = "free"
    /\ contexts = NoContexts
    /\ caller = IdleCaller
    /\ m_xGrammar = ColorGrammar
    /\ m_mMacros = <<>>
    /\ m_vErrors = <<>>
    /\ emitted = <<>>
    /\ fileContents = <<>>
    /\ sFileName = <<>>
    /\ existing = {}
    /\ stack = <<>>
    /\ visited = <<>>
    /\ evals = <<>>
    /\ diags = <<>>
    /\ macroText = <<>>
    /\ macroResult = <<>>

\* CWebListView::controlEvent, for a model provider that is not null: the
\* page, the two captions, and setModel.
controlEvent ==
    /\ pc = "listView"
    /\ Len(events) < MaxEvents
    /\ \E sName \in PageControls \cup { "Content" } :
          LET iTotalCount == listView.modelItemCount
              paged == [ listView EXCEPT !.m_iCurrentPage = controlEvent_Page(listView, sName) ]
          IN  /\ listView' =
                    setModel([ paged EXCEPT
                        !.CurrentPageIndex = number(paged.m_iCurrentPage),
                        !.TotalPageCount =
                            number(IntDiv(iTotalCount, paged.m_iItemsPerPage)) ])
              /\ events' = Append(events, <<"controlEvent", sName>>)
    /\ UNCHANGED <<pc, m_mContextMutex, contexts, caller, scope>>
    /\ UNCHANGED <<m_xGrammar, m_mMacros, m_vErrors, emitted, tree, fileContents,
                   sFileName, existing, stack, visited, evals, diags, macroText,
                   macroResult, m_pContext, settings, m_bStopAnalyzeRequested, disk,
                   frames>>

NextListView == controlEvent

SpecListView == InitListView /\ [][NextListView]_vars

-----------------------------------------------------------------------------
(* The formatter of a binary operation, and the lexer on what it wrote *)

\* QMLBinaryOperation::EOperator: the values of the switch of
\* operatorToString, and the two shifts the description of the tree gives.
SwitchOperators ==
    { "boNone", "boAssign", "boAdd", "boSub", "boMul", "boDiv", "boMod", "boAnd",
      "boOr", "boXor", "boLogicAnd", "boLogicOr", "boEquals", "boEqualsCheck",
      "boNotEquals", "boNotEqualsCheck", "boLower", "boLowerOrEquals", "boGreater",
      "boGreaterOrEquals" }
EOperator == SwitchOperators \cup { "boShiftLeft", "boShiftRight" }

\* QMLBinaryOperation::operatorToString
operatorToString(eOperator) ==
    CASE eOperator = "boNone"            -> Str("NONE")
      [] eOperator = "boAssign"          -> Str("=")
      [] eOperator = "boAdd"             -> Str("+")
      [] eOperator = "boSub"             -> Str("-")
      [] eOperator = "boMul"             -> Str("*")
      [] eOperator = "boDiv"             -> Str("/")
      [] eOperator = "boMod"             -> Str("%")
      [] eOperator = "boAnd"             -> Str("&")
      [] eOperator = "boOr"              -> Str("|")
      [] eOperator = "boXor"             -> Str("^")
      [] eOperator = "boLogicAnd"        -> Str("&&")
      [] eOperator = "boLogicOr"         -> Str("||")
      [] eOperator = "boEquals"          -> Str("==")
      [] eOperator = "boEqualsCheck"     -> Str("===")
      [] eOperator = "boNotEquals"       -> Str("!=")
      [] eOperator = "boNotEqualsCheck"  -> Str("!==")
      [] eOperator = "boLower"           -> Str("<")
      [] eOperator = "boLowerOrEquals"   -> Str("<=")
      [] eOperator = "boGreater"         -> Str(">")
      [] eOperator = "boGreaterOrEquals" -> Str(">=")
      [] OTHER                           -> Str("??")

\* What toQML of an operand writes: the operands are identifiers and
\* numbers, written as they are.
Operand_toQML(pEntity) == pEntity.text

\* The operands: no entity, or an entity and its text.
NoEntity == [ isNull |-> TRUE, text |-> <<>> ]
QMLEntity(text) == [ isNull |-> FALSE, text |-> text ]

\* QMLBinaryOperation::toQML: what is written to the stream.
QMLBinaryOperation_toQML(b) ==
    (IF b.m_bIsParenthesized THEN Str(" ( ") ELSE <<>>)
    \o (IF b.m_pLeft.isNull THEN <<>> ELSE Operand_toQML(b.m_pLeft))
    \o Str(" ") \o operatorToString(b.m_eOperator) \o Str(" ")
    \o (IF b.m_pRight.isNull THEN <<>> ELSE Operand_toQML(b.m_pRight))
    \o (IF b.m_bIsParenthesized THEN Str(" ) ") ELSE <<>>)

\* QMLBinaryOperation::QMLBinaryOperation, and setIsParenthesized
QMLBinaryOperation(pLeft, pRight, eOperator, bParenthesized) ==
    [ m_pLeft |-> pLeft, m_pRight |-> pRight, m_eOperator |-> eOperator,
      m_bIsParenthesized |-> bParenthesized ]

Operands == { NoEntity, QMLEntity(Str("a")), QMLEntity(Str("b1")), QMLEntity(Str("2")) }

InitFormat ==
    /\ pc = "formatting"
    /\ scope = NoScope
    /\ listView = NoListView
    /\ tree \in { QMLBinaryOperation(pLeft, pRight, eOperator, bParenthesized) :
                     pLeft \in Operands, pRight \in Operands,
                     eOperator \in EOperator, bParenthesized \in BOOLEAN }
    /\ m_pContext = "nullptr"
    /\ settings = ConstructedSettings
    /\ m_bStopAnalyzeRequested = FALSE
    /\ disk = EmptyDisk
    /\ frames = <<>>
    /\ events = <<>>
    /\ m_mContextMutex = "free"
    /\ contexts = NoContexts
    /\ caller = IdleCaller
    /\ m_xGrammar = ColorGrammar
    /\ m_mMacros = <<>>
    /\ m_vErrors = <<>>
    /\ emitted = <<>>
    /\ fileContents = <<>>
    /\ sFileName = <<>>
    /\ existing = {}
    /\ stack = <<>>
    /\ visited = <<>>
    /\ evals = <<>>
    /\ diags = <<>>
    /\ macroText = <<>>
    /\ macroResult = <<>>

\* The operation is written to a stream, and the stream is given to the
\* lexer as the text of a file.
toQML ==
    /\ pc = "formatting"
    /\ scope' = OpenScope(QMLBinaryOperation_toQML(tree))
    /\ pc' = "lexing"
    /\ UNCHANGED <<m_mContextMutex, contexts, caller, listView>>
    /\ UNCHANGED <<m_xGrammar, m_mMacros, m_vErrors, emitted, tree, fileContents,
                   sFileName, existing, stack, visited, evals, diags, macroText,
                   macroResult, m_pContext, settings, m_bStopAnalyzeRequested, disk,
                   frames, events>>

NextFormat == toQML \/ nextToken

SpecFormat == InitFormat /\ [][NextFormat]_vars

-----------------------------------------------------------------------------
(* The macro expander on its own: parseMacros, then one processMacros call *)

MaxMacros  == 2   \* <Macro> elements of a generated document
MaxTextLen == 4   \* length of the text expanded

MacroNames  == { Str("A"), Str("B") }
MacroValues == { <<>>, Str("x"), Str("$A$"), Str("$B$") }
TextChars   == { "$", "A", "B" }

MacroDefinitions ==
    { XMLNode("Macro", ("Name" :> n) @@ ("Value" :> v), <<>>) :
        n \in MacroNames, v \in MacroValues }

InitMacros ==
    /\ Constructed
    /\ pc = "macros"
    /\ m_xGrammar \in { Grammar(vMacros, <<>>) : vMacros \in SeqsUpTo(MacroDefinitions, MaxMacros) }
    /\ macroText \in SeqsUpTo(TextChars, MaxTextLen)
    /\ macroResult = <<>>
    /\ m_mMacros = <<>>
    /\ m_vErrors = <<>>
    /\ emitted = <<>>
    /\ tree = <<>>
    /\ fileContents = <<>>
    /\ sFileName = <<>>
    /\ existing = {}
    /\ stack = <<>>
    /\ visited = <<>>
    /\ evals = <<>>
    /\ diags = <<>>

parseMacrosCall ==
    /\ UNCHANGED runVars
    /\ pc = "macros"
    /\ m_mMacros' = parseMacros(m_xGrammar)
    /\ pc' = "parsed"
    /\ UNCHANGED <<m_xGrammar, m_vErrors, emitted, tree, fileContents, sFileName,
                   existing, stack, visited, evals, diags, macroText, macroResult>>

processMacrosCall ==
    /\ UNCHANGED runVars
    /\ pc = "parsed"
    /\ macroResult' = processMacros(macroText)
    /\ pc' = "expanded"
    /\ UNCHANGED <<m_xGrammar, m_mMacros, m_vErrors, emitted, tree, fileContents,
                   sFileName, existing, stack, visited, evals, diags, macroText>>

NextMacros == parseMacrosCall \/ processMacrosCall

SpecMacros == InitMacros /\ [][NextMacros]_vars

-----------------------------------------------------------------------------
(* Properties of the macro expander (checked under SpecMacros) *)

HasDollar(s) == \E i \in 1..Len(s) : s[i] = "$"

\* t with every occurrence of $FOO$ replaced by FOO's value
Substituted(FOO) == replace(macroText, FullMacroName(FOO), m_mMacros[FOO])

\* No macro other than FOO is referenced, in the text or once FOO is substituted.
OnlyReference(FOO) ==
    \A M \in (DOMAIN m_mMacros) \ {FOO} :
        /\ ~ contains(macroText, FullMacroName(M))
        /\ ~ contains(Substituted(FOO), FullMacroName(M))

IntroducedBy(FOO, BAR) ==
    /\ contains(m_mMacros[FOO], FullMacroName(BAR))
    /\ contains(macroText, FullMacroName(FOO))
    /\ ~ contains(macroText, FullMacroName(BAR))

\* C9, as stated: for every pair of macros FOO and BAR, a $BAR$ that occurs
\* only inside the value of FOO is still there, unexpanded, in the result of
\* expanding $FOO$.
C9_AsStated ==
    pc = "expanded" =>
        \A FOO \in DOMAIN m_mMacros : \A BAR \in DOMAIN m_mMacros :
            IntroducedBy(FOO, BAR)
                => /\ macroResult = Substituted(FOO)
                   /\ contains(macroResult, FullMacroName(BAR))

\* C9, amended: the macros are substituted one after the other in ascending
\* order of their names, each in the text as substituted so far and each once.
\* A $BAR$ introduced by the value of FOO stays unexpanded when BAR does not
\* sort after FOO (FOO itself included), and is expanded like any other
\* reference when BAR sorts after FOO and has a non-empty value.
C9_OnePassInNameOrder ==
    pc = "expanded" =>
        \A FOO \in DOMAIN m_mMacros : \A BAR \in DOMAIN m_mMacros :
            IntroducedBy(FOO, BAR) =>
                IF StrLess(FOO, BAR)
                THEN macroResult =
                        IF m_mMacros[BAR] = <<>> THEN Substituted(FOO)
                        ELSE replace(Substituted(FOO), FullMacroName(BAR), m_mMacros[BAR])
                ELSE /\ macroResult = Substituted(FOO)
                     /\ contains(macroResult, FullMacroName(BAR))

\* C9 witness: B's value refers to A, which sorts before B, and the $A$ that
\* expanding $B$ introduced is in the result although A is defined.
C9_Witness ==
    /\ pc = "expanded"
    /\ DOMAIN m_mMacros = { Str("A"), Str("B") }
    /\ m_mMacros[Str("A")] = Str("x")
    /\ m_mMacros[Str("B")] = Str("$A$")
    /\ macroText = Str("$B$")
    /\ macroResult = Str("$A$")

-----------------------------------------------------------------------------
(* Properties of the rule engine (checked under Spec) *)

Range(q) == { q[i] : i \in 1..Len(q) }

\* The non-null members and the ordered children of entity n.
ChildrenOf(n) ==
    ({ members(n)[k] : k \in DOMAIN members(n) } \cup Range(contentsOf(n))) \ {0}

RECURSIVE DescendantsOf(_)
DescendantsOf(n) ==
    ChildrenOf(n) \cup UNION { DescendantsOf(c) : c \in ChildrenOf(n) }

\* A rule emitted a diagnostic on entity n.
RuleFiredOn(n) == \E i \in 1..Len(diags) : diags[i].kind = "rule" /\ diags[i].node = n

\* The predicate attributes a rule sets.
PredAttrsOf(xRule) == { a \in PredicateAttrs : Attr(xRule, a) # <<>> }

\* The member's canonical string: toString() without the quotes.
MemberString(pMember) == RemoveChar(tree[pMember].str, "\"")

\* The predicate of the table of rule attributes, for the attribute a of the
\* rule, on the member pMember.
Predicate(a, pMember, xRule) ==
    LET v == processMacros(Attr(xRule, a))
    IN  CASE a = "Value"  -> MemberString(pMember) = v
          [] a = "RegExp" -> exactMatch(v, MemberString(pMember))
          [] a = "Class"  -> tree[pMember].className = v
          [] a = "List"   -> MemberString(pMember) \in Range(split(v, ","))
          [] a = "Count"  -> tree[pMember].complex
                             /\ Len(tree[pMember].contents) > toInt(v)
          [] a = "Type"   -> typeToString(tree[pMember].vtype) = v
          [] a = "Path"   -> v = Str("Exists") /\ PathExists(MemberString(pMember))

\* C1, as stated: a rule without NestedCount, with one predicate attribute,
\* run on an entity on which its conditions pass and which has the named
\* member: a Reject emits a diagnostic iff the predicate is true, an Accept iff
\* it is false.
C1_AsStated ==
    \A i \in 1..Len(evals) :
        LET e == evals[i]
            A == PredAttrsOf(e.rule)
        IN  ( /\ "NestedCount" \notin A
              /\ Cardinality(A) = 1
              /\ e.member # 0
              /\ runGrammar_SatisfiesConditions(e.node, e.rule) )
            => \A a \in A :
                  e.fired = IF e.rule.tag = "Reject"
                            THEN Predicate(a, e.member, e.rule)
                            ELSE ~ Predicate(a, e.member, e.rule)

\* C2: once runGrammar_Recurse has run on an entity, its members and children
\* are visited (or about to be) iff no rule emitted a diagnostic on it; and no
\* rule diagnostic is at a proper descendant of an entity on which a rule fired.
C2_RecurseIffNoRuleFired ==
    /\ \A n \in Range(visited) : \A c \in ChildrenOf(n) :
          (c \in Range(visited) \/ c \in Range(stack)) <=> ~ RuleFiredOn(n)
    /\ \A n \in Range(visited) :
          RuleFiredOn(n) => \A c \in DescendantsOf(n) : ~ RuleFiredOn(c)

\* C2 witness: the traversal is over, a rule fired on an entity that has
\* children, none of which was visited.
C2_Witness ==
    /\ pc = "done"
    /\ \E n \in Range(visited) :
          /\ RuleFiredOn(n)
          /\ ChildrenOf(n) # {}
          /\ \A c \in ChildrenOf(n) : c \notin Range(visited)

\* A <Condition> with a Member that is a non-null member of n and a non-empty Value.
IsValueCondition(n, xCondition) ==
    LET m == toLower(Attr(xCondition, "Member"))
    IN  /\ m \in DOMAIN members(n)
        /\ members(n)[m] # 0
        /\ Attr(xCondition, "Value") # <<>>

\* Such a condition passes iff (the member's string equals Value) XOR (Negate
\* is "true"); Negate is read without regard to case, as the source lowers it.
ValueConditionPasses(n, xCondition) ==
    LET m == toLower(Attr(xCondition, "Member"))
    IN  XOR(MemberString(members(n)[m]) = Attr(xCondition, "Value"),
            toLower(Attr(xCondition, "Negate")) = Str("true"))

\* C3: a rule emits no diagnostic unless every one of its conditions passes,
\* and a condition on a non-null member with a non-empty Value passes iff
\* (the member's string equals Value) XOR (Negate is "true").
C3_ConditionsGuardTheRule ==
    \A i \in 1..Len(evals) :
        LET e == evals[i]
            vConditions == getNodesByTagName(e.rule, "Condition")
        IN  /\ e.fired =>
                \A k \in 1..Len(vConditions) :
                    IF IsValueCondition(e.node, vConditions[k])
                    THEN ValueConditionPasses(e.node, vConditions[k])
                    ELSE SatisfiesCondition(e.node, vConditions[k])
            /\ \A k \in 1..Len(vConditions) :
                    IsValueCondition(e.node, vConditions[k]) =>
                        (SatisfiesCondition(e.node, vConditions[k])
                            <=> ValueConditionPasses(e.node, vConditions[k]))

\* C3 witness: a rule with two conditions, the second negated, emitted a
\* diagnostic: the name is color and the content is not transparent.
C3_Witness ==
    \E i \in 1..Len(evals) :
        LET e == evals[i]
        IN  /\ e.fired
            /\ getNodesByTagName(e.rule, "Condition")
                  = <<CondNameIsColor, CondContentNotTransparent>>
            /\ IsValueCondition(e.node, CondContentNotTransparent)
            /\ MemberString(members(e.node)[Str("content")]) # Str("transparent")

\* The rule elements of a check: its Reject and Accept elements.
RulesOf(xCheck) ==
    SelectSeq(xCheck.nodes, LAMBDA r : r.tag \in {"Reject", "Accept"})

\* C4: on every entity visited, every Reject and Accept rule of every check
\* whose Class is the entity's class is run, whether or not an earlier rule
\* fired: the runs recorded for the entity and the check are as many as the
\* check's rules and cover each of them.
C4_EveryRuleIsRun ==
    LET vChecks == getNodesByTagName(m_xGrammar, "Check")
    IN  \A n \in Range(visited) : \A c \in 1..Len(vChecks) :
            tree[n].className = Attr(vChecks[c], "Class") =>
                LET runs == SelectSeq(evals, LAMBDA e : e.node = n /\ e.check = c)
                IN  /\ Len(runs) = Len(RulesOf(vChecks[c]))
                    /\ \A r \in Range(RulesOf(vChecks[c])) :
                          \E k \in 1..Len(runs) : runs[k].rule = r

\* C4 witness: one entity received two rule diagnostics of one check, and a
\* third diagnostic of another check.
C4_Witness ==
    \E i, j, k \in 1..Len(diags) :
        /\ i < j /\ j < k
        /\ diags[i].kind = "rule" /\ diags[j].kind = "rule" /\ diags[k].kind = "rule"
        /\ diags[i].node = diags[j].node /\ diags[j].node = diags[k].node
        /\ diags[i].check = diags[j].check
        /\ diags[k].check # diags[j].check

\* C5: the error list has one entry per diagnostic; for an entity and a check,
\* no diagnostic of an Accept rule precedes one of a Reject rule, whatever the
\* order of the elements in the document; and the unreferenced-symbol
\* diagnostics of an entity precede its rule diagnostics.
C5_RejectsBeforeAccepts ==
    /\ Len(diags) = Len(m_vErrors)
    /\ \A i, j \in 1..Len(diags) :
          ( /\ diags[i].kind = "rule" /\ diags[j].kind = "rule"
            /\ diags[i].node = diags[j].node
            /\ diags[i].check = diags[j].check
            /\ diags[i].tag = "Reject" /\ diags[j].tag = "Accept" ) => i < j
    /\ \A i, j \in 1..Len(diags) :
          ( /\ diags[i].kind # "rule" /\ diags[j].kind = "rule"
            /\ diags[i].node = diags[j].node ) => i < j

\* C5 witness: an item has an unreferenced property, and a check in which an
\* Accept element comes before a Reject element in the document emitted a
\* diagnostic of each on that item.
C5_Witness ==
    \E i, j, k \in 1..Len(diags) :
        /\ diags[i].kind = "property"
        /\ diags[j].kind = "rule" /\ diags[j].tag = "Reject"
        /\ diags[k].kind = "rule" /\ diags[k].tag = "Accept"
        /\ diags[i].node = diags[j].node /\ diags[j].node = diags[k].node
        /\ diags[j].check = diags[k].check
        /\ LET vRules == RulesOf(getNodesByTagName(m_xGrammar, "Check")[diags[j].check])
           IN  \E a, r \in 1..Len(vRules) :
                  a < r /\ vRules[a] = diags[k].rule /\ vRules[r] = diags[j].rule

\* The rule with, of its predicate attributes, only those of the set A.
Restrict(xRule, A) ==
    XMLNode(xRule.tag,
            [a \in (DOMAIN xRule.attributes) \ (PredicateAttrs \ A) |->
                xRule.attributes[a]],
            xRule.nodes)

\* The first attribute of the order that is in A, as a set; {} when none is.
FirstOf(order, A) ==
    IF \E i \in 1..Len(order) : order[i] \in A
    THEN { order[CHOOSE i \in 1..Len(order) :
                    order[i] \in A /\ \A j \in 1..(i - 1) : order[j] \notin A] }
    ELSE {}

\* The order of the table of rule attributes.
TableOrder ==
    << "Value", "RegExp", "Class", "List", "Count", "Type", "Path", "NestedCount" >>

\* The order of the else-if chain of runGrammar_Reject.
ChainOrder ==
    << "NestedCount", "List", "Class", "Path", "RegExp", "Count", "Type", "Value" >>

\* C6, as stated: a rule that sets two or more predicate attributes is decided
\* as the rule with only the attribute listed first in the table would be.
C6_AsStated ==
    \A i \in 1..Len(evals) :
        LET e == evals[i]
            A == PredAttrsOf(e.rule)
        IN  Cardinality(A) >= 2 =>
                e.fired = runGrammar_Reject(tree[e.node].className, e.node,
                                            Restrict(e.rule, FirstOf(TableOrder, A)),
                                            e.rule.tag = "Accept")

\* The attributes in play: a RegExp is passed over when the named member's
\* string is empty.
EffectiveAttrs(e) ==
    IF e.member # 0 /\ MemberString(e.member) = <<>>
    THEN PredAttrsOf(e.rule) \ {"RegExp"}
    ELSE PredAttrsOf(e.rule)

\* C6, amended: a rule that sets two or more predicate attributes is decided
\* as the rule with only the attribute that comes first in the chain
\* NestedCount, List, Class, Path, RegExp, Count, Type, Value would be, a
\* RegExp being passed over when the member's string is empty.
C6_FirstOfTheChainDecides ==
    \A i \in 1..Len(evals) :
        LET e == evals[i]
            A == PredAttrsOf(e.rule)
        IN  Cardinality(A) >= 2 =>
                e.fired = runGrammar_Reject(tree[e.node].className, e.node,
                                            Restrict(e.rule, FirstOf(ChainOrder, EffectiveAttrs(e))),
                                            e.rule.tag = "Accept")

\* C6 witness: a rule with both Value and RegExp was run on a member whose
\* string the Value equals and the RegExp does not match, and the Reject did
\* not fire.
C6_Witness ==
    \E i \in 1..Len(evals) :
        LET e == evals[i]
        IN  /\ PredAttrsOf(e.rule) = {"Value", "RegExp"}
            /\ e.rule.tag = "Reject"
            /\ e.member # 0
            /\ Predicate("Value", e.member, e.rule)
            /\ ~ Predicate("RegExp", e.member, e.rule)
            /\ ~ e.fired

\* The condition with every attribute macro-expanded.
Expanded(xCondition) ==
    XMLNode(xCondition.tag,
            [a \in DOMAIN xCondition.attributes |-> processMacros(xCondition.attributes[a])],
            xCondition.nodes)

\* C8, as stated: a condition is evaluated on its macro-expanded attributes: a
\* condition whose Value contains $FOO$ is compared using FOO's value.
C8_AsStated ==
    \A i \in 1..Len(evals) :
        LET e == evals[i]
            vConditions == getNodesByTagName(e.rule, "Condition")
        IN  \A k \in 1..Len(vConditions) :
                SatisfiesCondition(e.node, vConditions[k])
                    = SatisfiesCondition(e.node, Expanded(vConditions[k]))

\* C10, as stated: on a binary operation, a rule with Member "left" ("right")
\* is run against the left (right) operand.
C10_AsStated ==
    \A i \in 1..Len(evals) :
        LET e == evals[i]
            m == toLower(Attr(e.rule, "Member"))
        IN  tree[e.node].className = Str("QMLBinaryOperation") =>
                /\ m = Str("left") => e.member = tree[e.node].left
                /\ m = Str("right") => e.member = tree[e.node].right

-----------------------------------------------------------------------------
(* Conditions, the rule against hardcoded colors, NestedCount (checked under
   SpecRules) *)

\* A <Condition> with an Empty attribute and no Value, on a non-null member of n.
IsEmptyCondition(n, xCondition) ==
    LET m == toLower(Attr(xCondition, "Member"))
    IN  /\ m \in DOMAIN members(n)
        /\ members(n)[m] # 0
        /\ Attr(xCondition, "Value") = <<>>
        /\ Attr(xCondition, "Empty") # <<>>

\* C11, as stated: a condition with Empty and no Value, on a non-null member,
\* passes iff ((the member's string is empty) equals (Empty is "true")) XOR
\* (Negate is "true").
C11_AsStated ==
    \A i \in 1..Len(evals) :
        LET e == evals[i]
            vConditions == getNodesByTagName(e.rule, "Condition")
        IN  \A k \in 1..Len(vConditions) :
                IsEmptyCondition(e.node, vConditions[k]) =>
                    LET m == toLower(Attr(vConditions[k], "Member"))
                    IN  SatisfiesCondition(e.node, vConditions[k])
                        = XOR((MemberString(members(e.node)[m]) = <<>>)
                                = (toLower(Attr(vConditions[k], "Empty")) = Str("true")),
                              toLower(Attr(vConditions[k], "Negate")) = Str("true"))

\* A <Condition> whose Member is "filename", on an entity that has no member
\* of that name.
IsFileNameCondition(n, xCondition) ==
    /\ toLower(Attr(xCondition, "Member")) = Str("filename")
    /\ Str("filename") \notin DOMAIN members(n)

\* (The file path contains Value when Operation is "Contains", else it equals
\* Value) XOR (Negate is "true", read without regard to case).
FileNameConditionPasses(xCondition) ==
    XOR(IF Attr(xCondition, "Operation") = Str("Contains")
        THEN \E a \in 0..Len(sFileName) : \E b \in a..Len(sFileName) :
                SubSeq(sFileName, a + 1, b) = Attr(xCondition, "Value")
        ELSE sFileName = Attr(xCondition, "Value"),
        toLower(Attr(xCondition, "Negate")) = Str("true"))

\* C12: a condition with Member "filename" passes iff (the current file path
\* contains Value when Operation is "Contains", otherwise the path equals
\* Value) XOR (Negate is "true"); and a rule under that one condition emits a
\* diagnostic exactly when the condition passes and its predicate decides so.
C12_FileNameCondition ==
    \A i \in 1..Len(evals) :
        LET e == evals[i]
            vConditions == getNodesByTagName(e.rule, "Condition")
        IN  /\ \A k \in 1..Len(vConditions) :
                  IsFileNameCondition(e.node, vConditions[k]) =>
                      (SatisfiesCondition(e.node, vConditions[k])
                          <=> FileNameConditionPasses(vConditions[k]))
            /\ ( /\ Len(vConditions) = 1
                 /\ IsFileNameCondition(e.node, vConditions[1])
                 /\ PredAttrsOf(e.rule) = {"Class"}
                 /\ e.member # 0 )
               => ( e.fired <=>
                      /\ FileNameConditionPasses(vConditions[1])
                      /\ XOR(Predicate("Class", e.member, e.rule), e.inverse) )

\* C12 witness: a Reject under a condition on the file name with Operation
\* "Contains", whose Value is a proper part of the path, emitted a diagnostic;
\* the condition would fail a comparison for equality.
C12_Witness ==
    \E i \in 1..Len(evals) :
        LET e == evals[i]
            vConditions == getNodesByTagName(e.rule, "Condition")
        IN  /\ e.fired
            /\ e.rule.tag = "Reject"
            /\ Len(vConditions) = 1
            /\ IsFileNameCondition(e.node, vConditions[1])
            /\ Attr(vConditions[1], "Operation") = Str("Contains")
            /\ Attr(vConditions[1], "Value") = Str("a")
            /\ Attr(vConditions[1], "Negate") = <<>>
            /\ sFileName = Str("a.x")

\* A property assignment named color whose content is a plain entity (a
\* literal) other than transparent.
HardcodedColor(n) ==
    LET pName    == members(n)[Str("name")]
        pContent == members(n)[Str("content")]
    IN  /\ tree[n].className = Str("QMLPropertyAssignment")
        /\ pName # 0 /\ MemberString(pName) = Str("color")
        /\ pContent # 0
        /\ tree[pContent].className = Str("QMLEntity")
        /\ MemberString(pContent) # Str("transparent")

\* C13: under the rule against hardcoded colors, once the traversal is over,
\* every property assignment named color whose content is a plain literal
\* other than transparent has exactly one diagnostic, with the rule's Text, at
\* the position of the assignment, appended and emitted; an assignment of
\* another name, or of content transparent, has none.
C13_HardcodedColor ==
    (m_xGrammar = ColorGrammar /\ pc = "done") =>
        /\ \A n \in 1..Len(tree) :
              tree[n].className = Str("QMLPropertyAssignment") =>
                  LET mine == { i \in 1..Len(diags) : diags[i].node = n }
                  IN  /\ Cardinality(mine) = IF HardcodedColor(n) THEN 1 ELSE 0
                      /\ \A i \in mine :
                            /\ diags[i].rule = ColorRule
                            /\ m_vErrors[i]
                                  = AnalyzerError(sFileName, tree[n].position,
                                                  Str("No hardcoded colors allowed"))
        /\ \A i \in 1..Len(diags) :
              tree[diags[i].node].className = Str("QMLPropertyAssignment")
        /\ emitted = m_vErrors

\* C13 witness: the traversal of  color: "red"  is over, with one diagnostic
\* at the assignment (column 4, line 2) and not at its content.
C13_Witness ==
    /\ m_xGrammar = ColorGrammar
    /\ pc = "done"
    /\ HardcodedColor(1)
    /\ MemberString(members(1)[Str("content")]) = Str("red")
    /\ Len(m_vErrors) = 1
    /\ m_vErrors[1].position = <<4, 2>>
    /\ m_vErrors[1].position # tree[members(1)[Str("content")]].position

\* The entities of class K that are n or below n.
NestOf(K, n) ==
    { d \in {n} \cup DescendantsOf(n) : tree[d].className = K }

\* The depth to which entities of class K are nested in the subtree of n: the
\* greatest number of entities of class K on one path down from n.
NestDepth(K, n) ==
    MaxOf({ Cardinality({ a \in NestOf(K, n) : a = d \/ d \in DescendantsOf(a) }) :
              d \in NestOf(K, n) })

\* The entities of class K that are inside no other entity of class K.
Outermost(K) ==
    { n \in 1..Len(tree) :
        /\ tree[n].className = K
        /\ \A a \in 1..Len(tree) :
              tree[a].className = K => n \notin DescendantsOf(a) }

\* The document is one check of one rule, a Reject with a NestedCount N > 0.
IsNestedCountReject ==
    LET vChecks == getNodesByTagName(m_xGrammar, "Check")
    IN  /\ Len(vChecks) = 1
        /\ Len(RulesOf(vChecks[1])) = 1
        /\ RulesOf(vChecks[1])[1].tag = "Reject"
        /\ getNodesByTagName(RulesOf(vChecks[1])[1], "Condition") = <<>>
        /\ toInt(Attr(RulesOf(vChecks[1])[1], "NestedCount")) > 0

\* C14: for a Reject rule with NestedCount N > 0 on class K, once the
\* traversal is over, there is exactly one diagnostic at each outermost
\* entity of class K in which entities of class K are nested deeper than N,
\* and no other: one diagnostic when the depth D of the one nest is above N,
\* none when D <= N.
C14_NestedCount ==
    (IsNestedCountReject /\ pc = "done") =>
        LET xCheck == getNodesByTagName(m_xGrammar, "Check")[1]
            K == Attr(xCheck, "Class")
            N == toInt(Attr(RulesOf(xCheck)[1], "NestedCount"))
        IN  /\ \A n \in 1..Len(tree) :
                  Cardinality({ i \in 1..Len(diags) : diags[i].node = n })
                    = IF n \in Outermost(K) /\ NestDepth(K, n) > N THEN 1 ELSE 0
            /\ \A i \in 1..Len(diags) :
                  m_vErrors[i] = AnalyzerError(sFileName, tree[diags[i].node].position,
                                               Str("T"))
            /\ Len(m_vErrors) = Len(diags)

\* C14 witness: NestedCount 3 on four items nested one in the next, one of
\* them as the content of a property assignment: one diagnostic, at the
\* outermost item (line 1).
C14_Witness ==
    /\ IsNestedCountReject
    /\ pc = "done"
    /\ Attr(RulesOf(getNodesByTagName(m_xGrammar, "Check")[1])[1], "NestedCount") = Str("3")
    /\ NestDepth(Str("QMLItem"), 1) = 4
    /\ \E k \in 1..Len(tree) :
          /\ tree[k].className = Str("QMLPropertyAssignment")
          /\ members(k)[Str("content")] # 0
    /\ Len(m_vErrors) = 1
    /\ m_vErrors[1].position = <<1, 1>>

-----------------------------------------------------------------------------
(* Runs over folders and files: syntax errors, imports, cancellation, the    *)
(* order of the steps of analyzeFile (checked under SpecRun)                 *)

\* The indexes of the events of one kind, and those about one file.
EventsOf(kind) == { i \in 1..Len(events) : events[i][1] = kind }

Happened(kind, sFile) == \E i \in 1..Len(events) : events[i] = <<kind, sFile>>

\* The file of the last call of showError before the event at index i.
LastShowError(i) ==
    events[MaxOf({ j \in 1..(i - 1) : events[j][1] = "showError" })][2]

\* The index in the error list of the k-th entry that reports a syntax error.
RECURSIVE SyntaxEntry(_, _)
SyntaxEntry(k, from) ==
    IF diags[from].kind = "syntax"
    THEN IF k = 1 THEN from ELSE SyntaxEntry(k - 1, from + 1)
    ELSE SyntaxEntry(k, from + 1)

\* C15: when the parse that analyzeFile asks of the context for a file ends in
\* a syntax error, analyzeFile appends exactly one entry to the error list,
\* the error of the context (the file, position and text given to the last
\* showError), emits it as a notification, and for that file there is no rule
\* or unreferenced symbol diagnostic, no pruning and no rewrite.
C15_SyntaxError ==
    /\ Len(Notified) = Len(m_vErrors)
    /\ Cardinality({ j \in 1..Len(diags) : diags[j].kind = "syntax" })
         = Cardinality(EventsOf("peSyntaxError"))
    /\ \A i \in EventsOf("peSyntaxError") :
          LET sFile == events[i][2]
              k     == Cardinality({ j \in EventsOf("peSyntaxError") : j <= i })
              e     == SyntaxEntry(k, 1)
              g     == LastShowError(i)
          IN  /\ i < Len(events) /\ events[i + 1] = <<"analyzeError", sFile>>
              /\ m_vErrors[e] = AnalyzerError(g, disk.files[g].errorAt, Str("syntax error"))
              /\ Notified[e] = m_vErrors[e]
              /\ \A j \in 1..Len(diags) :
                    diags[j].kind # "syntax" => m_vErrors[j].file # sFile
              /\ ~ Happened("runGrammar", sFile)
              /\ ~ Happened("removeUnreferencedSymbols", sFile)
              /\ ~ Happened("write", sFile)

\* C15 witness: a folder run with rewriting and pruning asked has ended; the
\* first file had a syntax error, which is the first entry of the error list,
\* at the position the parser was at; the second file was analyzed after it.
C15_Witness ==
    /\ pc = "finished"
    /\ settings.m_bRewriteFiles /\ settings.m_bRemoveUnreferencedSymbols
    /\ disk.files[FileA].syntaxError
    /\ Happened("peSyntaxError", FileA)
    /\ Len(m_vErrors) >= 2
    /\ m_vErrors[1] = AnalyzerError(FileA, <<3, 5>>, Str("syntax error"))
    /\ emitted[1] = m_vErrors[1]
    /\ m_vErrors[2].file = FileB
    /\ Happened("write", FileB)

\* C16 as stated: solveSymbols, solveReferences and solveSymbolUsages are not
\* run on a file whose parse ended in a syntax error.
C16_AsStated ==
    \A i \in EventsOf("solveSymbols") \cup EventsOf("solveReferences")
              \cup EventsOf("solveSymbolUsages") :
        ~ disk.files[events[i][2]].syntaxError

\* The files of a directory, and the files a run hands to analyzeFile when it
\* is not stopped: those of the folder of the settings, with those of its
\* subfolders when subfolders are included, or the one file of the settings.
FilesIn(sDirectory) ==
    { FullName(sDirectory, disk.dirs[sDirectory].files[i]) :
        i \in 1..Len(disk.dirs[sDirectory].files) }

FilesOfRun ==
    IF settings.m_sFolder # <<>>
    THEN FilesIn(settings.m_sFolder)
         \cup (IF settings.m_bIncludeSubFolders
               THEN UNION { FilesIn(FullName(settings.m_sFolder,
                                             disk.dirs[settings.m_sFolder].dirs[k])) :
                              k \in 1..Len(disk.dirs[settings.m_sFolder].dirs) }
               ELSE {})
    ELSE { settings.m_sFile }

Stopped == EventsOf("stop") # {}

\* The outcome parse() gave analyzeFile for a file depends on that file alone.
OwnOutcome(i) ==
    events[i][1] = IF disk.files[events[i][2]].syntaxError
                   THEN "peSyntaxError" ELSE "peSuccess"

\* C17 as stated: in a folder run every file is handed to analyzeFile
\* whatever happened in the files before it, the parse outcome used for a
\* file is that of the file alone, and a file that is valid has its rules
\* evaluated.
C17_AsStated ==
    settings.m_sFolder # <<>> =>
        /\ (pc = "finished" /\ ~ Stopped) =>
              \A sFile \in FilesOfRun : Happened("analyzeFile", sFile)
        /\ \A i \in EventsOf("peSuccess") \cup EventsOf("peSyntaxError") :
              /\ OwnOutcome(i)
              /\ ~ disk.files[events[i][2]].syntaxError
                    => events[i + 1] = <<"runGrammar", events[i][2]>>

\* C17 holds when imports are not included.
C17_WithoutImports == settings.m_bIncludeImports \/ C17_AsStated

\* C17 fails whether or not the parser marks an import as parsed.
C17_WhenImportsStayUnparsed == disk.marksImports = "never" => C17_AsStated

C17_WhenImportsAreMarkedBefore == disk.marksImports = "before" => C17_AsStated

C17_WhenImportsAreMarked == disk.marksImports = "after" => C17_AsStated

\* C19 as stated: with include_imports, when the parse of an imported file
\* raised a syntax error, the error list of the finished run has an entry for
\* that file.
C19_AsStated ==
    (settings.m_bIncludeImports /\ pc = "finished" /\ ~ Stopped) =>
        \A i \in EventsOf("importParsingStarted") :
            disk.files[events[i][2]].syntaxError
                => \E e \in 1..Len(m_vErrors) : m_vErrors[e].file = events[i][2]

\* C19 fails whether or not the parser marks an import as parsed.
C19_WhenImportsStayUnparsed == disk.marksImports = "never" => C19_AsStated

C19_WhenImportsAreMarkedBefore == disk.marksImports = "before" => C19_AsStated

C19_WhenImportsAreMarked == disk.marksImports = "after" => C19_AsStated

\* The file handed to analyzeFile by the last call before the event at index i.
FileInProgress(i) ==
    events[MaxOf({ j \in 1..(i - 1) : events[j][1] = "analyzeFile" })][2]

\* The events of one call of analyzeFile and of the parse it asks for.
FileEventKinds ==
    { "parsingStarted", "yyparse", "importParsingStarted", "showError",
      "solveSymbols", "solveReferences", "solveSymbolUsages", "parsingFinished",
      "parseImportFileReturns", "parseReturns", "overflow",
      "peSuccess", "peSyntaxError", "analyzeError", "runGrammar",
      "removeUnreferencedSymbols", "write", "analyzeFileReturns" }

C18_WitnessFile ==
    /\ pc = "finished"
    /\ settings.m_sFile = FileA
    /\ \E s \in EventsOf("stop") :
          \E i \in (s + 1)..Len(events) : events[i] = <<"analyzeFileReturns", FileA>>

\* C20: analyzeFile parses, then evaluates the rules, then prunes, then
\* writes. A file is written only with rewrite_files, after its parse gave
\* success and its rules were evaluated; unreferenced symbols are removed
\* only with rewrite_files and remove_unreferenced_symbols both, after the
\* rules of the file were evaluated and before the file is written.
C20_Order ==
    /\ \A r \in EventsOf("runGrammar") :
          /\ events[r - 1] = <<"peSuccess", events[r][2]>>
          /\ \E p \in 1..(r - 1) : events[p] = <<"yyparse", events[r][2]>>
    /\ \A w \in EventsOf("write") :
          /\ settings.m_bRewriteFiles
          /\ \E r \in 1..(w - 1) : events[r] = <<"runGrammar", events[w][2]>>
          /\ ~ (pc = "runGrammar" /\ sFileName = events[w][2])
    /\ \A u \in EventsOf("removeUnreferencedSymbols") :
          /\ settings.m_bRewriteFiles /\ settings.m_bRemoveUnreferencedSymbols
          /\ \E r \in 1..(u - 1) : events[r] = <<"runGrammar", events[u][2]>>
          /\ ~ (pc = "runGrammar" /\ sFileName = events[u][2])
          /\ \A w \in EventsOf("write") : events[w][2] = events[u][2] => u < w
    /\ \A w \in EventsOf("write") :
          settings.m_bRemoveUnreferencedSymbols
              => events[w - 1] = <<"removeUnreferencedSymbols", events[w][2]>>

\* C20 witness: with both flags, d/a was parsed, its rule gave a diagnostic,
\* its unreferenced symbols were removed and then it was written.
C20_Witness ==
    /\ settings.m_bRewriteFiles /\ settings.m_bRemoveUnreferencedSymbols
    /\ \E w \in EventsOf("write") :
          /\ events[w] = <<"write", FileA>>
          /\ events[w - 1] = <<"removeUnreferencedSymbols", FileA>>
          /\ events[w - 2] = <<"runGrammar", FileA>>
          /\ events[w - 3] = <<"peSuccess", FileA>>
    /\ \E e \in 1..Len(m_vErrors) :
          /\ m_vErrors[e].file = FileA
          /\ diags[e].kind = "rule"

-----------------------------------------------------------------------------
(* Notifications (checked under SpecRun)                                     *)

\* C21: in every state of a call of analyze, the analyzeError notifications
\* made since the call began are the entries of the error list, one for one
\* and in the same order: each entry is notified as it is appended, and the
\* list holds no entry of an earlier call.
C21_Notifications == Notified = m_vErrors

\* C21 witness: a further call of analyze on an analyzer has finished; the
\* calls before it had given notifications, and this one gave a syntax error
\* and a rule diagnostic.
C21_Witness ==
    /\ pc = "finished"
    /\ events[1][2] > 0
    /\ Len(emitted) = events[1][2] + Len(m_vErrors)
    /\ \E i, j \in 1..Len(diags) : diags[i].kind = "syntax" /\ diags[j].kind = "rule"

-----------------------------------------------------------------------------
(* NestedCount in an Accept (checked under SpecRules)                        *)

IsNestedCountAccept ==
    LET vChecks == getNodesByTagName(m_xGrammar, "Check")
    IN  /\ Len(vChecks) = 1
        /\ Len(RulesOf(vChecks[1])) = 1
        /\ RulesOf(vChecks[1])[1].tag = "Accept"
        /\ getNodesByTagName(RulesOf(vChecks[1])[1], "Condition") = <<>>
        /\ toInt(Attr(RulesOf(vChecks[1])[1], "NestedCount")) > 0

\* C27 as stated: an Accept rule with NestedCount N > 0 on class K, run on an
\* entity of class K, gives a diagnostic iff the entities of class K are not
\* nested deeper than N in that entity.
C27_AsStated ==
    IsNestedCountAccept =>
        LET xCheck == getNodesByTagName(m_xGrammar, "Check")[1]
            K == Attr(xCheck, "Class")
            N == toInt(Attr(RulesOf(xCheck)[1], "NestedCount"))
        IN  \A i \in 1..Len(evals) :
                evals[i].fired <=> ~ (NestDepth(K, evals[i].node) > N)

\* An Accept rule with NestedCount N > 0 never gives a diagnostic.
C27_AcceptNeverFires ==
    IsNestedCountAccept => \A i \in 1..Len(evals) : ~ evals[i].fired

-----------------------------------------------------------------------------
(* The scope stack and the recursion of imports (checked under SpecRun)      *)

\* C29: when parse() returns the scope stack is empty, and when a call of
\* parseImportFile returns the stack is what it was at the call, same depth
\* and same scopes, whether or not a syntax error was raised meanwhile.
C29_ScopesBalanced ==
    /\ \A i \in EventsOf("parseReturns") : events[i][2] = <<>>
    /\ \A i \in EventsOf("parseImportFileReturns") : events[i][2][1] = events[i][2][2]
    /\ (events # <<>> /\ pc # "crashed") => m_pContext.m_sScopes = <<>>

\* C29 witness: d/a imported d/b, whose parse raised a syntax error under
\* the scope of d/a; parseImportFile returned to that one scope, and parse()
\* returned.
C29_Witness ==
    /\ \E i, j, k \in 1..Len(events) :
          /\ i < j /\ j < k
          /\ events[i] = <<"importParsingStarted", FileB>>
          /\ events[j] = <<"showError", FileB>>
          /\ events[k][1] = "parseImportFileReturns"
          /\ Len(events[k][2][1]) = 1
          /\ events[k][2][1][1].m_pFile = FileA
    /\ EventsOf("parseReturns") # {}

\* C30 as stated: with include_imports no file is parsed twice by one
\* context, and the recursion of imports ends.
C30_AsStated ==
    settings.m_bIncludeImports =>
        /\ \A sFile \in DOMAIN disk.files :
              Cardinality({ i \in EventsOf("yyparse") : events[i][2] = sFile }) <= 1
        /\ pc # "crashed"

\* C30 fails whatever the generated parser does with setFileParsed.
C30_WhenImportsStayUnparsed == disk.marksImports = "never" => C30_AsStated

C30_WhenImportsAreMarkedBefore == disk.marksImports = "before" => C30_AsStated

C30_WhenImportsAreMarked == disk.marksImports = "after" => C30_AsStated

\* The recursion of imports ends.
C30_RecursionEnds == pc # "crashed"

C30_RecursionEndsWhenMarkedBefore == disk.marksImports = "before" => pc # "crashed"

-----------------------------------------------------------------------------
(* The context and its mutex (checked under SpecContext)                     *)

\* C28 as stated: a context is deleted only by a thread that holds the
\* context mutex, no thread uses a context that was deleted, and the calling
\* thread never holds a pointer to a context that was deleted.
C28_AsStated ==
    /\ \A i \in EventsOf("delete") :
          events[i][2].address # 0 => events[i][2].mutex = events[i][2].by
    /\ \A i \in EventsOf("use") : events[i][2].state # "deleted"
    /\ caller.p # 0 => contexts.objects[caller.p] = "live"

\* Each part of C28 fails by itself.
C28_DeletedUnderTheMutex ==
    \A i \in EventsOf("delete") :
        events[i][2].address # 0 => events[i][2].mutex = events[i][2].by

C28_NoUseAfterDelete ==
    \A i \in EventsOf("use") : events[i][2].state # "deleted"

\* C28 fails without any call of clear(): the pointer context() returned is
\* held after the mutex is released.
C28_WithoutClear ==
    EventsOf("delete") = { i \in EventsOf("delete") : events[i][2].by = "worker" }
        => (caller.p # 0 => contexts.objects[caller.p] = "live")

-----------------------------------------------------------------------------
(* The lexer (checked under SpecLexer)                                       *)

\* The calls of nextToken made so far, in order.
LexerRan == pc \in { "lexing", "atEnd", "hung" } /\ events # <<>>
TokenEvent(i) == events[i][2]
Quotes == { "\"", "'" }

\* The depth counter the specification describes, run over a text from its
\* i-th character on: each "/*" inside a comment is one level more, each
\* "*/" one level less. It gives the position after the "*/" that closes
\* the outermost comment (the end of the text if none does), whether one
\* does, and the deepest level that was reached.
RECURSIVE NestedComment(_, _, _, _)
NestedComment(text, i, depth, deepest) ==
    IF i + 2 > Len(text)
    THEN [ closed |-> FALSE, end |-> Len(text), deepest |-> deepest ]
    ELSE IF text[i + 1] = "/" /\ text[i + 2] = "*"
    THEN NestedComment(text, i + 2, depth + 1,
                       IF depth + 1 > deepest THEN depth + 1 ELSE deepest)
    ELSE IF text[i + 1] = "*" /\ text[i + 2] = "/"
    THEN IF depth = 1 THEN [ closed |-> TRUE, end |-> i + 2, deepest |-> deepest ]
         ELSE NestedComment(text, i + 2, depth - 1, deepest)
    ELSE NestedComment(text, i + 1, depth, deepest)

StartsWithComment(text) == Len(text) >= 2 /\ text[1] = "/" /\ text[2] = "*"

\* C22 as stated: when a text starts with a block comment that holds
\* another block comment (depth 2 or more) and is closed, the first token
\* returned starts after the "*/" that closes the outermost comment.
C22_AsStated ==
    (LexerRan /\ StartsWithComment(scope.m_sStream)
       /\ NestedComment(scope.m_sStream, 0, 0, 0).closed
       /\ NestedComment(scope.m_sStream, 0, 0, 0).deepest >= 2)
    => ((TokenEvent(1).returns /\ TokenEvent(1).token # END_OF_STREAM)
          => TokenEvent(1).from >= NestedComment(scope.m_sStream, 0, 0, 0).end)

\* What the lexer does instead (C22): the comment level is never above 1,
\* a "/*" inside a comment counts for nothing.
C22_LevelAtMostOne == LexerRan => scope.m_iCommentLevel <= 1

\* C22 holds for the comments that hold no other comment.
C22_WithoutNesting ==
    (LexerRan /\ StartsWithComment(scope.m_sStream)
       /\ NestedComment(scope.m_sStream, 0, 0, 0).deepest < 2)
    => ((TokenEvent(1).returns /\ TokenEvent(1).token # END_OF_STREAM)
          => TokenEvent(1).from >= NestedComment(scope.m_sStream, 0, 0, 0).end)

\* A call that read a quote as the first character of its token and
\* returned 0: the stream ended inside the string literal.
EndedInLiteral(e) ==
    /\ e.returns
    /\ e.token = END_OF_STREAM
    /\ e.from < Len(scope.m_sStream)
    /\ scope.m_sStream[e.from + 1] \in Quotes

\* C23 as stated: when the stream ends inside a string literal, in double or
\* in single quotes, the scope is in the syntax error state.
C23_AsStated ==
    LexerRan =>
        \A i \in 1..Len(events) :
            EndedInLiteral(TokenEvent(i)) => scope.m_eError = "peSyntaxError"

\* What the lexer does instead (C23): no call of the lexer changes the
\* error state of the scope.
C23_NoErrorFromTheLexer == LexerRan => scope.m_eError = "peSuccess"

\* The value in base 16 of a text of hexadecimal digits.
HexDigitValue(c) ==
    CASE IsDigit(c) -> DigitValue(c)
      [] c \in { "a", "A" } -> 10
      [] c \in { "b", "B" } -> 11
      [] c \in { "c", "C" } -> 12
      [] c \in { "d", "D" } -> 13
      [] c \in { "e", "E" } -> 14
      [] c \in { "f", "F" } -> 15

RECURSIVE HexValue(_, _)
HexValue(digits, acc) ==
    IF digits = <<>> THEN acc
    ELSE HexValue(Tail(digits), 16 * acc + HexDigitValue(digits[1]))

\* "0x" or "0X" and one hexadecimal digit or more.
IsHexLiteral(text) ==
    /\ Len(text) >= 3
    /\ text[1] = "0"
    /\ text[2] \in { "x", "X" }
    /\ \A i \in 3..Len(text) : IsDigit(text[i]) \/ text[i] \in HexLetters

\* C24 as stated: the token of a hexadecimal literal is an integer constant
\* whose value is the value of its digits in base 16.
C24_AsStated ==
    LexerRan =>
        \A i \in 1..Len(events) :
            IsHexLiteral(TokenEvent(i).value) =>
                /\ TokenEvent(i).token = "TOKEN_INTEGERCONSTANT"
                /\ TokenEvent(i).LVAL.member = "Integer"
                /\ TokenEvent(i).LVAL.Integer
                     = HexValue(SubSeq(TokenEvent(i).value, 3, Len(TokenEvent(i).value)), 0)

\* What the lexer does instead (C24): the token is an integer constant and
\* its value is 0, toInt() reading "0x..." in base 10.
C24_IntegerConstantOfValueZero ==
    LexerRan =>
        \A i \in 1..Len(events) :
            IsHexLiteral(TokenEvent(i).value) =>
                /\ TokenEvent(i).token = "TOKEN_INTEGERCONSTANT"
                /\ TokenEvent(i).LVAL = LVAL_Integer(0)

\* The characters after the '[' a token starts with that are not white
\* spaces, by their place in the stream.
AfterBracket(e) ==
    { j \in (e.from + 2)..Len(scope.m_sStream) : scope.m_sStream[j] \notin Whites }
FirstPlace(S) == CHOOSE j \in S : \A k \in S : j <= k
StartsWithBracket(e) ==
    e.from < Len(scope.m_sStream) /\ scope.m_sStream[e.from + 1] = "["

\* C25: a '[', white spaces or none, and a ']' give one dimension token
\* "[]" and the stream is after the ']'; a '[', white spaces or none, and
\* any other character give the token '[' and the stream is before that
\* character, where the next token starts.
C25_Dimension ==
    LexerRan =>
        \A i \in 1..Len(events) :
            (StartsWithBracket(TokenEvent(i)) /\ AfterBracket(TokenEvent(i)) # {}) =>
                LET e == TokenEvent(i)
                    j == FirstPlace(AfterBracket(e))
                IN  /\ e.returns
                    /\ IF scope.m_sStream[j] = "]"
                       THEN /\ e.token = "TOKEN_DIMENSION"
                            /\ e.value = << "[", "]" >>
                            /\ e.to = j
                       ELSE /\ e.token = "["
                            /\ e.value = << "[" >>
                            /\ e.to = j - 1
                            /\ (i < Len(events) /\ scope.m_sStream[j] # "/")
                                  => TokenEvent(i + 1).from = j - 1

\* C25 witness: in one text, a '[', a white space and a ']' gave a dimension
\* token, and a '[' before another character gave the token '[', the next
\* token starting at that character.
C25_Witness ==
    /\ LexerRan
    /\ \E i \in 1..Len(events) :
          /\ TokenEvent(i).token = "TOKEN_DIMENSION"
          /\ TokenEvent(i).to - TokenEvent(i).from >= 3
    /\ \E i \in 1..(Len(events) - 1) :
          /\ TokenEvent(i).token = "["
          /\ TokenEvent(i + 1).token = "TOKEN_IDENTIFIER"
          /\ TokenEvent(i + 1).from = TokenEvent(i).to

\* C26 as stated: every call of nextToken returns, and the calls return 0
\* after finitely many tokens: at most one token for each character.
C26_AsStated ==
    LexerRan =>
        /\ \A i \in 1..Len(events) : TokenEvent(i).returns
        /\ Cardinality({ i \in 1..Len(events) : TokenEvent(i).token # END_OF_STREAM })
              <= Len(scope.m_sStream)

\* Each part of C26 fails by itself: a call that never returns ("[" and
\* white spaces, or a '*' in a comment, at the end of the text) ...
C26_EveryCallReturns == LexerRan => \A i \in 1..Len(events) : TokenEvent(i).returns

\* ... and tokens without end (an identifier, a number or an operator at the
\* end of the text).
C26_TokensEnd ==
    LexerRan =>
        Cardinality({ i \in 1..Len(events) : TokenEvent(i).token # END_OF_STREAM })
            <= Len(scope.m_sStream)

\* What goes wrong (C26): a call that returns a token leaves the stream
\* where it found it, or before: the character put back at the end of the
\* stream is the last character of the text.
C26_EveryTokenTakesACharacter ==
    LexerRan =>
        \A i \in 1..Len(events) :
            (TokenEvent(i).returns /\ TokenEvent(i).token # END_OF_STREAM)
                => TokenEvent(i).to > TokenEvent(i).from

\* C26 holds for the texts that end with a '}' or a ']': no character is put
\* back at the end of the stream.
C26_WhenTheTextEndsWell ==
    (LexerRan /\ scope.m_sStream # <<>>
       /\ scope.m_sStream[Len(scope.m_sStream)] \in { "}", "]" })
    => /\ \A i \in 1..Len(events) : TokenEvent(i).returns
       /\ Cardinality({ i \in 1..Len(events) : TokenEvent(i).token # END_OF_STREAM })
             <= Len(scope.m_sStream)
       /\ \A i \in 1..Len(events) :
             (TokenEvent(i).returns /\ TokenEvent(i).token # END_OF_STREAM)
                 => TokenEvent(i).to > TokenEvent(i).from

-----------------------------------------------------------------------------
(* The notifications of parse() (checked under SpecRun)                      *)

ParseBrackets == { "parsingStarted", "parsingFinished", "parseReturns" }

\* C31: in a run that is not lost, every parsingStarted(f) is followed by
\* one parsingFinished(f) with no other parsingStarted, parsingFinished or
\* return of parse() between them, whether f has a syntax error or not;
\* every parsingFinished(f) follows such a parsingStarted(f); every
\* importParsingStarted lies between the two notifications of a file; each
\* of the two is emitted at most once for a file, however many calls of
\* parse() follow the one that parsed it; and a file that was marked as
\* parsed after it was parsed as an import gets neither.
C31_StartedThenFinished ==
    (events # <<>> /\ events[1][1] = "analyze" /\ pc # "crashed") =>
        /\ \A i \in EventsOf("parsingStarted") :
              \E j \in (i + 1)..Len(events) :
                  /\ events[j] = <<"parsingFinished", events[i][2]>>
                  /\ \A k \in (i + 1)..(j - 1) : events[k][1] \notin ParseBrackets
        /\ \A j \in EventsOf("parsingFinished") :
              \E i \in 1..(j - 1) :
                  /\ events[i] = <<"parsingStarted", events[j][2]>>
                  /\ \A k \in (i + 1)..(j - 1) : events[k][1] \notin ParseBrackets
        /\ \A m \in EventsOf("importParsingStarted") :
              \E i \in 1..(m - 1) :
                  /\ events[i][1] = "parsingStarted"
                  /\ \A k \in (i + 1)..(m - 1) : events[k][1] \notin ParseBrackets
        /\ \A i, j \in EventsOf("parsingStarted") : events[i][2] = events[j][2] => i = j
        /\ \A i, j \in EventsOf("parsingFinished") : events[i][2] = events[j][2] => i = j
        /\ disk.marksImports = "after" =>
              \A i \in EventsOf("parsingStarted") :
                  \A m \in 1..(i - 1) :
                      events[m] # <<"importParsingStarted", events[i][2]>>

\* C31 witness: d/a has a syntax error and imports a file; parsingStarted(d/a),
\* importParsingStarted, showError and parsingFinished(d/a) came in that order.
C31_Witness ==
    /\ pc # "crashed"
    /\ disk.files # <<>>
    /\ FileA \in DOMAIN disk.files
    /\ disk.files[FileA].syntaxError
    /\ \E i, m, e, j \in 1..Len(events) :
          /\ i < m /\ m < e /\ e < j
          /\ events[i] = <<"parsingStarted", FileA>>
          /\ events[m][1] = "importParsingStarted"
          /\ events[e] = <<"showError", FileA>>
          /\ events[j] = <<"parsingFinished", FileA>>

-----------------------------------------------------------------------------
(* The operators (checked under SpecLexer)                                   *)

\* The operators and their tokens, as the lexer's description lists them.
ListedOperators ==
    (Str("+") :> "TOKEN_ADD") @@ (Str("++") :> "TOKEN_INC")
    @@ (Str("+=") :> "TOKEN_ADD_ASSIGN")
    @@ (Str("-") :> "TOKEN_SUB") @@ (Str("--") :> "TOKEN_DEC")
    @@ (Str("-=") :> "TOKEN_SUB_ASSIGN")
    @@ (Str("*") :> "TOKEN_MUL") @@ (Str("*=") :> "TOKEN_MUL_ASSIGN")
    @@ (Str("/") :> "TOKEN_DIV") @@ (Str("/=") :> "TOKEN_DIV_ASSIGN")
    @@ (Str("%") :> "TOKEN_MOD") @@ (Str("%=") :> "TOKEN_MOD_ASSIGN")
    @@ (Str("&") :> "TOKEN_AND") @@ (Str("&&") :> "TOKEN_LOGICAL_AND")
    @@ (Str("&=") :> "TOKEN_AND_ASSIGN")
    @@ (Str("|") :> "TOKEN_OR") @@ (Str("||") :> "TOKEN_LOGICAL_OR")
    @@ (Str("|=") :> "TOKEN_OR_ASSIGN")
    @@ (Str("^") :> "TOKEN_XOR") @@ (Str("^=") :> "TOKEN_XOR_ASSIGN")
    @@ (Str("<") :> "TOKEN_LOWER") @@ (Str("<=") :> "TOKEN_LOWER_EQUALS")
    @@ (Str("<<") :> "TOKEN_SHL") @@ (Str("<<=") :> "TOKEN_SHL_ASSIGN")
    @@ (Str(">") :> "TOKEN_GREATER") @@ (Str(">=") :> "TOKEN_GREATER_EQUALS")
    @@ (Str(">>") :> "TOKEN_SHR") @@ (Str(">>=") :> "TOKEN_SHR_ASSIGN")
    @@ (Str("=") :> "TOKEN_ASSIGN") @@ (Str("==") :> "TOKEN_EQUALS")
    @@ (Str("===") :> "TOKEN_EQUALS_CHECK")
    @@ (Str("!") :> "TOKEN_NOT") @@ (Str("!=") :> "TOKEN_NOT_EQUALS")
    @@ (Str("!==") :> "TOKEN_NOT_EQUALS_CHECK")
    @@ (Str("<>") :> "TOKEN_NOT_EQUALS") @@ (Str("~") :> "TOKEN_COMPLEMENT")

\* The listed operators and "!!".
OperatorKinds == ListedOperators @@ (Str("!!") :> "TOKEN_NOT_NOT")

\* The text is the operator q, one more character and the letter a.
OperatorThenOne(q) ==
    /\ LexerRan
    /\ Len(scope.m_sStream) = Len(q) + 2
    /\ SubSeq(scope.m_sStream, 1, Len(q)) = q
    /\ scope.m_sStream[Len(q) + 2] = "a"

\* The first token is the one of the operator q, its text is q, it starts
\* at the first character and the stream is left right after q; the next
\* call starts at the character that follows, or after it when it is a
\* white space.
OneTokenOf(q, token) ==
    /\ TokenEvent(1).returns
    /\ TokenEvent(1).token = token
    /\ TokenEvent(1).value = q
    /\ TokenEvent(1).from = 0
    /\ TokenEvent(1).to = Len(q)
    /\ Len(events) >= 2 =>
          TokenEvent(2).from =
              IF AboveSpace(scope.m_sStream[Len(q) + 1]) THEN Len(q) ELSE Len(q) + 1

\* C32 as stated: for a text made of a listed operator, one character that
\* makes no longer listed operator of it, and a letter, the first token is the
\* operator's, exactly its characters are taken and the next token starts
\* at the character that follows.
C32_AsStated ==
    \A q \in DOMAIN ListedOperators :
        (/\ OperatorThenOne(q)
         /\ SubSeq(scope.m_sStream, 1, Len(q) + 1) \notin DOMAIN ListedOperators)
            => OneTokenOf(q, ListedOperators[q])

\* The character c after the operator q makes a longer operator of it, "!!"
\* included, or with '/' the start of a comment.
Extends(q, c) ==
    \/ q \o <<c>> \in DOMAIN OperatorKinds
    \/ q = <<"/">> /\ c \in { "/", "*" }

\* The text is the operator q and one character that does not extend it.
OperatorThenOther(q) ==
    /\ OperatorThenOne(q)
    /\ ~ Extends(q, scope.m_sStream[Len(q) + 1])

\* C32 amended: with "!!" (the not-not token) among the operators, and with
\* '/' and '*' after '/' counted as extending it (they open a comment), for
\* a text made of an operator, one character that cannot extend it and a
\* letter, the first token is the operator's token, its text is the operator, it starts
\* at the first character and the stream is left right after the operator;
\* the next call starts at the character that follows, or after it when it
\* is a white space.
C32_LongestMatch ==
    \A q \in DOMAIN OperatorKinds :
        OperatorThenOther(q) => OneTokenOf(q, OperatorKinds[q])

\* C32: "!" followed by "!" is one not-not token of two characters.
C32_NotNot ==
    (LexerRan /\ scope.m_sStream = Str("!!")) =>
        /\ TokenEvent(1).token = "TOKEN_NOT_NOT"
        /\ TokenEvent(1).to = 2

\* C32 witness: a three-character operator, or "<>", was followed by two
\* letters, and they were the next token.
C32_Witness ==
    /\ \E q \in { Str("<<="), Str(">>="), Str("==="), Str("!=="), Str("<>") } :
          /\ OperatorThenOther(q)
          /\ scope.m_sStream[Len(q) + 1] = "a"
          /\ Len(events) >= 2
          /\ TokenEvent(1).token = OperatorKinds[q]
          /\ TokenEvent(2).token = "TOKEN_IDENTIFIER"

-----------------------------------------------------------------------------
(* The words (checked under SpecLexer)                                       *)

\* The i-th call returned a token that starts with a letter, '_' or '$'.
IsWord(i) ==
    /\ TokenEvent(i).returns
    /\ TokenEvent(i).token # END_OF_STREAM
    /\ TokenEvent(i).from < Len(scope.m_sStream)
    /\ LET c == scope.m_sStream[TokenEvent(i).from + 1]
       IN  isalpha(c) \/ c = "_" \/ c = "$"

BooleanWords == { Str("true"), Str("false") }

\* C33 as stated: a word is a boolean constant if and only if its text is
\* exactly true or false, the token of a keyword if and only if its text is
\* exactly that keyword, and in every other case, True included, an
\* identifier that carries the text.
C33_AsStated ==
    LexerRan =>
        \A i \in 1..Len(events) :
            IsWord(i) =>
                LET text == TokenEvent(i).value
                IN  /\ TokenEvent(i).token = "TOKEN_BOOLCONSTANT" <=> text \in BooleanWords
                    /\ text \in DOMAIN m_mTokens => TokenEvent(i).token = m_mTokens[text]
                    /\ text \notin BooleanWords \cup DOMAIN m_mTokens =>
                          /\ TokenEvent(i).token = "TOKEN_IDENTIFIER"
                          /\ TokenEvent(i).LVAL = LVAL_String(text)

\* C33: what the lexer does: the text is compared with true and false once
\* it is put in lower case, and with the keywords as it is.
C33_BooleanInAnyCase ==
    LexerRan =>
        \A i \in 1..Len(events) :
            IsWord(i) =>
                LET text == TokenEvent(i).value
                IN  /\ TokenEvent(i).token = "TOKEN_BOOLCONSTANT"
                          <=> toLower(text) \in BooleanWords
                    /\ toLower(text) \in BooleanWords =>
                          TokenEvent(i).LVAL = LVAL_Boolean(toLower(text) = Str("true"))
                    /\ (text \in DOMAIN m_mTokens /\ toLower(text) \notin BooleanWords)
                          => TokenEvent(i).token = m_mTokens[text]
                    /\ (text \notin DOMAIN m_mTokens /\ toLower(text) \notin BooleanWords)
                          => /\ TokenEvent(i).token = "TOKEN_IDENTIFIER"
                             /\ TokenEvent(i).LVAL = LVAL_String(text)

\* C33: the keywords are matched as they are written: If is an identifier.
C33_KeywordsAsWritten ==
    (LexerRan /\ scope.m_sStream = Str("If ")) =>
        TokenEvent(1).token = "TOKEN_IDENTIFIER"

-----------------------------------------------------------------------------
(* The reader (checked under SpecReader)                                     *)

Ungets == { i \in 1..Len(events) : events[i][1] = "ungetChar" }
Gets == { i \in 1..Len(events) : events[i][1] = "getChar" }

\* C34 as stated: ungetChar of a character moves the stream back by one
\* character, and for a newline takes one from the line and sets the column
\* to 1024, for every other character takes one from the column.
C34_AsStated ==
    \A i \in Ungets :
        LET u == events[i][2]
        IN  u.c # EOF =>
                /\ u.after.pos = u.before.pos - 1
                /\ IF u.c = "\n"
                   THEN /\ u.after.m_iLine = u.before.m_iLine - 1
                        /\ u.after.m_iColumn = 1024
                   ELSE /\ u.after.m_iLine = u.before.m_iLine
                        /\ u.after.m_iColumn = u.before.m_iColumn - 1

\* C34 amended: ungetChar moves the stream back by one character unless the
\* stream is at its start, where it stays; for a newline it takes one from
\* the line and sets the column to 1024; for a tab it takes 8 from the
\* column; for a carriage return it leaves the column as it is; for every
\* other value it takes one from the column; the line changes for a newline
\* only.
C34_Reversed ==
    \A i \in Ungets :
        LET u == events[i][2]
        IN  /\ u.after.pos = IF u.before.pos = 0 THEN 0 ELSE u.before.pos - 1
            /\ u.after.m_iLine = u.before.m_iLine - (IF u.c = "\n" THEN 1 ELSE 0)
            /\ u.after.m_iColumn =
                  CASE u.c = "\n" -> 1024
                    [] u.c = "\t" -> u.before.m_iColumn - 8
                    [] u.c = "\r" -> u.before.m_iColumn
                    [] OTHER      -> u.before.m_iColumn - 1

\* C34 witness: a tab and a letter were read and put back, the letter first.
C34_Witness ==
    /\ Len(events) >= 4
    /\ events[3][1] = "ungetChar" /\ events[3][2].c = "a"
    /\ events[4][1] = "ungetChar" /\ events[4][2].c = "\t"
    /\ events[4][2].after.m_iColumn = 0
    /\ events[4][2].after.pos = 0

\* One GET at i and the UNGET of its value right after it.
GetUnget(i) ==
    /\ i + 1 <= Len(events)
    /\ events[i][1] = "getChar"
    /\ events[i + 1][1] = "ungetChar"

\* Two GETs at i and i + 1 and the two UNGETs right after them.
GetGetUngetUnget(i) ==
    /\ i + 3 <= Len(events)
    /\ events[i][1] = "getChar" /\ events[i + 1][1] = "getChar"
    /\ events[i + 2][1] = "ungetChar" /\ events[i + 3][1] = "ungetChar"

\* The scope b is the scope a again: the offset and the line, and the
\* column unless a newline is among the values.
Restored(a, b, values) ==
    /\ b.pos = a.pos
    /\ b.m_iLine = a.m_iLine
    /\ "\n" \notin values => b.m_iColumn = a.m_iColumn

\* C35 as stated: at every position, the end of the text included, a GET
\* and the UNGET of its value restore the offset, the line and (unless the
\* value is a newline) the column, and so do two GETs and the two UNGETs.
C35_AsStated ==
    /\ \A i \in Gets :
          GetUnget(i) =>
              Restored(events[i][2].before, events[i + 1][2].after, { events[i][2].c })
    /\ \A i \in Gets :
          GetGetUngetUnget(i) =>
              Restored(events[i][2].before, events[i + 3][2].after,
                       { events[i][2].c, events[i + 1][2].c })

\* C35: the same for the GETs that return a character, with the stream
\* where the text has left it before them.
C35_BeforeTheEnd ==
    /\ \A i \in Gets :
          (GetUnget(i) /\ events[i][2].c # EOF /\ Pending(SubSeq(events, 1, i - 1)) = <<>>
           /\ EOF \notin { events[j][2].c : j \in 1..i })
              => Restored(events[i][2].before, events[i + 1][2].after, { events[i][2].c })
    /\ \A i \in Gets :
          (GetGetUngetUnget(i) /\ events[i + 1][2].c # EOF
           /\ EOF \notin { events[j][2].c : j \in 1..i })
              => Restored(events[i][2].before, events[i + 3][2].after,
                          { events[i][2].c, events[i + 1][2].c })

\* C35: a GET at the end of the text returns EOF and leaves the stream
\* where it is; the UNGET of EOF moves it one character back.
C35_EndOfInputIsPutBack ==
    \A i \in Gets :
        (GetUnget(i) /\ events[i][2].c = EOF) =>
            /\ events[i][2].after = events[i][2].before
            /\ events[i + 1][2].after.m_iColumn = events[i][2].before.m_iColumn - 1
            /\ events[i][2].before.pos > 0 =>
                  events[i + 1][2].after.pos = events[i][2].before.pos - 1

-----------------------------------------------------------------------------
(* The position of a token (checked under SpecLexer)                         *)

\* The scope of a text after n calls of getChar from its start.
RECURSIVE Counted(_, _)
Counted(text, n) ==
    IF n = 0 THEN OpenScope(text) ELSE getChar(Counted(text, n - 1)).s

\* The last call returned a token.
LastToken == TokenEvent(Len(events))
GaveToken == LexerRan /\ LastToken.returns /\ LastToken.token # END_OF_STREAM

\* C36 as stated: the position recorded for a token is the line and the
\* column that getChar counts from the start of the text up to the first
\* character of the token.
C36_AsStated ==
    GaveToken =>
        /\ scope.m_iPreviousLine = Counted(scope.m_sStream, LastToken.from).m_iLine
        /\ scope.m_iPreviousColumn = Counted(scope.m_sStream, LastToken.from).m_iColumn

\* C36: for the text of a '/' and a newline, the '/' is recorded at column
\* 1023 of line 0: the newline is put back, which sets the column to 1024,
\* and then the '/'.
C36_DivBeforeNewline ==
    (GaveToken /\ Len(events) = 1 /\ scope.m_sStream = <<"/", "\n">>) =>
        /\ LastToken.token = "TOKEN_DIV"
        /\ scope.m_iPreviousLine = 0
        /\ scope.m_iPreviousColumn = 1023

\* C36: the position is the one claimed for every token of a text that
\* holds no '/'.
C36_WithoutDiv ==
    (GaveToken /\ \A k \in 1..Len(scope.m_sStream) : scope.m_sStream[k] # "/") =>
        /\ scope.m_iPreviousLine = Counted(scope.m_sStream, LastToken.from).m_iLine
        /\ scope.m_iPreviousColumn = Counted(scope.m_sStream, LastToken.from).m_iColumn

-----------------------------------------------------------------------------
(* The formatter of a binary operation (checked under SpecFormat)            *)

\* The spelling of each operator in a source text.
SourceSpelling ==
    [ eOperator \in EOperator \ { "boNone" } |->
        CASE eOperator = "boShiftLeft"  -> Str("<<")
          [] eOperator = "boShiftRight" -> Str(">>")
          [] OTHER -> operatorToString(eOperator) ]

\* The operation was written and the lexer has gone through the text.
Relexed == pc \in { "atEnd", "hung" } \/ (pc = "lexing" /\ Len(events) > Len(scope.m_sStream))

\* Which call of nextToken meets the operator: the one after the '(' and
\* the left operand, when there are any.
OperatorCall ==
    1 + (IF tree.m_bIsParenthesized THEN 1 ELSE 0)
      + (IF tree.m_pLeft.isNull THEN 0 ELSE 1)

\* The lexer gave, at the place of the operator, one token of the operator
\* whose spelling is q, and an operand, a ')' or the end after it.
RelexedAs(q) ==
    /\ Len(events) >= OperatorCall
    /\ TokenEvent(OperatorCall).returns
    /\ TokenEvent(OperatorCall).token = OperatorKinds[q]
    /\ TokenEvent(OperatorCall).value = q

\* The text written has " ( " before the operation and " ) " after it.
InParentheses(text) ==
    /\ Len(text) >= 6
    /\ SubSeq(text, 1, 3) = Str(" ( ")
    /\ SubSeq(text, Len(text) - 2, Len(text)) = Str(" ) ")

\* C37 as stated: for every operator but none, the shifts included, the
\* text written holds the operator's spelling between spaces, the lexer
\* gives one token of that operator for it, and the text is in parentheses
\* if and only if the operation is parenthesized.
C37_AsStated ==
    (Relexed /\ tree.m_eOperator # "boNone") =>
        /\ RelexedAs(SourceSpelling[tree.m_eOperator])
        /\ InParentheses(scope.m_sStream) <=> tree.m_bIsParenthesized

\* C37: the same for the operators that operatorToString knows.
C37_OperatorsOfTheSwitch ==
    (Relexed /\ tree.m_eOperator \in SwitchOperators \ { "boNone" }) =>
        /\ RelexedAs(SourceSpelling[tree.m_eOperator])
        /\ InParentheses(scope.m_sStream) <=> tree.m_bIsParenthesized

\* C37: a shift is written as ??, and the lexer gives a '?' for it.
C37_ShiftIsWrittenAsUnknown ==
    (Relexed /\ tree.m_eOperator \in { "boShiftLeft", "boShiftRight" }) =>
        /\ TokenEvent(OperatorCall).token = "?"
        /\ \E i \in 1..(Len(scope.m_sStream) - 1) :
              scope.m_sStream[i] = "?" /\ scope.m_sStream[i + 1] = "?"

-----------------------------------------------------------------------------
(* A condition on a member the entity has not (checked under SpecRules)      *)

\* A <Condition> with no Empty attribute whose Member, in lower case, is not
\* filename and is no member of n, or a null one.
IsAbsentCondition(n, xCondition) ==
    LET m == toLower(Attr(xCondition, "Member"))
    IN  /\ ~ (m \in DOMAIN members(n) /\ members(n)[m] # 0)
        /\ m # Str("filename")
        /\ Attr(xCondition, "Empty") = <<>>

\* C38: a condition with no Empty attribute on a member that the entity has
\* not, or that is null, passes whatever its Value and its Negate; a rule
\* under that one condition emits a diagnostic exactly when its predicate
\* decides so.
C38_AbsentMemberPasses ==
    \A i \in 1..Len(evals) :
        LET e == evals[i]
            vConditions == getNodesByTagName(e.rule, "Condition")
        IN  /\ \A k \in 1..Len(vConditions) :
                  IsAbsentCondition(e.node, vConditions[k]) =>
                      SatisfiesCondition(e.node, vConditions[k])
            /\ ( /\ Len(vConditions) = 1
                 /\ IsAbsentCondition(e.node, vConditions[1])
                 /\ PredAttrsOf(e.rule) = {"Class"}
                 /\ e.member # 0 )
               => ( e.fired <=> XOR(Predicate("Class", e.member, e.rule), e.inverse) )

\* C38 witness: a Reject emitted a diagnostic under one condition on the
\* null member type, with a Value and Negate "false".
C38_Witness ==
    \E i \in 1..Len(evals) :
        LET e == evals[i]
            vConditions == getNodesByTagName(e.rule, "Condition")
        IN  /\ e.fired
            /\ e.rule.tag = "Reject"
            /\ Len(vConditions) = 1
            /\ IsAbsentCondition(e.node, vConditions[1])
            /\ Attr(vConditions[1], "Member") = Str("Type")
            /\ Attr(vConditions[1], "Value") = Str("color")
            /\ Attr(vConditions[1], "Negate") = Str("false")
            /\ Str("type") \in DOMAIN members(e.node)

-----------------------------------------------------------------------------
(* A file is parsed once by parse() (checked under SpecRun)                  *)

\* The call of parse() made for the file of the i-th event, an analyzeFile,
\* found no file to parse: it returned at once.
ParsedNothing(i) ==
    /\ i + 1 <= Len(events)
    /\ events[i][1] = "analyzeFile"
    /\ events[i + 1][1] = "parseReturns"

\* C39: in a run that is not lost, parse() starts the parse of a file at
\* most once, however many calls are made on the context, and the file is
\* marked as parsed once its parse has finished, with a syntax error or
\* without; a call of parse() that finds every file parsed emits nothing
\* and returns peSuccess, and it leaves the context with no error and an
\* empty error object, whatever the calls before it have left.
C39_ParsedOnce ==
    (events # <<>> /\ events[1][1] = "analyze" /\ pc # "crashed") =>
        /\ \A i, j \in EventsOf("parsingStarted") : events[i][2] = events[j][2] => i = j
        /\ \A j \in EventsOf("parsingFinished") : fileParsed(m_pContext, events[j][2])
        /\ \A i \in 1..Len(events) :
              ParsedNothing(i) =>
                  /\ fileParsed(m_pContext, events[i][2])
                  /\ i + 2 <= Len(events) => events[i + 2] = <<"peSuccess", events[i][2]>>
                  /\ i + 3 = Len(events) =>
                        /\ m_pContext.m_eError = "peSuccess"
                        /\ m_pContext.m_tErrorObject = NoError

\* C39 witness: d/a, which imports d/b, had a syntax error; d/b was parsed
\* as its import and marked; the parse() made for d/b then found nothing to
\* parse and returned success, and the context has no error.
C39_Witness ==
    /\ pc = "runGrammar"
    /\ Happened("showError", FileA)
    /\ Happened("parsingFinished", FileA)
    /\ Happened("importParsingStarted", FileB)
    /\ ~ Happened("parsingStarted", FileB)
    /\ Len(events) >= 4
    /\ ParsedNothing(Len(events) - 3)
    /\ events[Len(events) - 3] = <<"analyzeFile", FileB>>
    /\ m_pContext.m_eError = "peSuccess"

-----------------------------------------------------------------------------
(* The pages of a list view (checked under SpecListView)                     *)

\* The page that holds the last item of the model.
PageOfTheLastItem(v) == (v.modelItemCount - 1) \div v.m_iItemsPerPage

\* The current page is not negative and starts within the model.
PageWithinTheModel(v) ==
    /\ v.m_iCurrentPage >= 0
    /\ v.modelItemCount > 0 => v.m_iCurrentPage * v.m_iItemsPerPage < v.modelItemCount

LastEvent == events[Len(events)][2]

\* C40 as stated: after any events of the four page buttons, the current
\* page is not negative and starts within the model when the model has
\* items, and after LastPage it is the page that holds the last item.
C40_AsStated ==
    (pc = "listView" /\ listView.m_iItemsPerPage > 0) =>
        /\ PageWithinTheModel(listView)
        /\ (events # <<>> /\ LastEvent = "LastPage" /\ listView.modelItemCount > 0) =>
              listView.m_iCurrentPage = PageOfTheLastItem(listView)

\* C40: what LastPage does: the page is the number of whole pages less one.
C40_LastPageOfWholePages ==
    (pc = "listView" /\ events # <<>> /\ LastEvent = "LastPage") =>
        listView.m_iCurrentPage =
            (listView.modelItemCount \div listView.m_iItemsPerPage) - 1

\* C40: the claim holds as long as LastPage is not among the events.
C40_WithoutLastPage ==
    (pc = "listView" /\ \A i \in 1..Len(events) : events[i][2] # "LastPage") =>
        PageWithinTheModel(listView)

\* C40: the claim holds when the items fill whole pages, and there are some.
C40_WhenPagesAreWhole ==
    (/\ pc = "listView"
     /\ listView.modelItemCount > 0
     /\ listView.modelItemCount % listView.m_iItemsPerPage = 0) =>
        /\ PageWithinTheModel(listView)
        /\ (events # <<>> /\ LastEvent = "LastPage") =>
              listView.m_iCurrentPage = PageOfTheLastItem(listView)

====
